---- MODULE Spec2Model ----
(***************************************************************************)
(* kali_sse: the Task Manager (src/core/task_manager.py), the Process      *)
(* Executor (src/core/executor.py) and the execution flow of the Protocol  *)
(* Gateway (src/protocols/mcp_server.py) as one state machine.             *)
(*                                                                         *)
(* Conventions.  Python None is 0 for a timestamp (time.time() is always   *)
(* positive, and the code tests timestamps by truthiness), "none" for a    *)
(* string-valued field and <<>> for an optional argument (<<v>> is the     *)
(* value v).  Progress is kept in percent (1.0 is 100).  A task id is the  *)
(* serial number of the uuid4 that create_task drew, so that a smaller id  *)
(* is an older task.                                                       *)
(***************************************************************************)
EXTENDS Integers, Sequences, FiniteSets, TLC

\* ----------------------------------------------------------------- bounds
\* Tasks created under QueueSpec, under ApiSpec and under Spec; the clock's last value.
MaxTasks == 3
MaxApiTasks == 1
MaxGatewayTasks == 2
MaxClock == 2
\* Connections opened and tasks submitted under SseSpec.
MaxConnections == 2
MaxSseTasks == 1
\* Under HeartbeatSpec: connections opened, the clock's last value, and the events
\* a stream carries.
MaxHeartbeatConnections == 1
MaxStreamClock == 34
MaxStreamLen == 3
\* GateSpec: tasks created through POST /api/v1/execute.
MaxGateTasks == 1
MaxLiveTasks == 1
MaxCancelTasks == 1
\* The connection sweep: connections, and the clock in seconds.
MaxSweepConnections == 1
MaxSweepClock == 361
\* The task sweep: tasks, and the clock in seconds (26 sleeps of one hour).
MaxTaskSweepTasks == 1
MaxRegistryTasks == 2

\* The observers registered for one event type.
MaxObservers == 2
\* Targeted broadcasts: the events a connection is handed.
MaxTargetLen == 2
MaxTaskSweepClock == 93601

\* ExecutionConfig.max_concurrent_tasks as configured for the modelled server.
max_concurrent_tasks == 1

\* -------------------------------------------------------------- constants
PENDING == "pending"
RUNNING == "running"
COMPLETED == "completed"
FAILED == "failed"
CANCELLED == "cancelled"
TIMEOUT == "timeout"
TaskStatus == {PENDING, RUNNING, COMPLETED, FAILED, CANCELLED, TIMEOUT}

LOW == 1
NORMAL == 2
HIGH == 3
CRITICAL == 4
TaskPriority == {LOW, NORMAL, HIGH, CRITICAL}

\* The priorities the modelled callers submit with.
PriorityInputs == {NORMAL, HIGH}

TaskIds == 1..MaxTasks

ConnIds == 1..MaxConnections

\* The event types MCPServer._setup_event_callbacks registers a callback for.
GatewayCallbacks == {"task_started", "task_progress", "task_completed", "task_failed"}

VARIABLES
    tasks,            \* TaskManager.tasks: task id -> Task
    pending_queue,    \* TaskManager.pending_queue: sequence of task ids
    running_tasks,    \* TaskManager.running_tasks: its key set
    stats,            \* TaskManager.stats
    uuid,             \* number of task ids drawn so far
    now,              \* time.time()
    last,             \* the call made by the last step: operation, task, status argument, return value, events fired
    cancelled_pending,\* history: ids on which cancel_task succeeded while the task was Pending
    pc,               \* per task: where _execute_task_async / CommandExecutor.execute stands
    active_contexts,  \* CommandExecutor.active_contexts: its key set
    child,            \* per task: the Popen child ("none", "alive", "dead")
    desc,             \* per task: a live descendant of the child in the child's process group ("none", "alive")
    signals,          \* per task: the signals sent so far to the child's pid
    exec_result,      \* per task: what execute returned ("none", "ok", "nonzero", "timeout", "error")
    event_callbacks,  \* TaskManager.event_callbacks: the event types with the gateway's callback registered
    ready,            \* the event loop's FIFO of coroutines scheduled by asyncio.create_task
    connections,      \* SSEHandler.connections: its key set
    conn,             \* per connection id: the SSEConnection object (subscriptions, queue, active)
    conn_uuid,        \* number of connection ids drawn so far
    stream,           \* per connection: the events its event_stream generator has yielded
    gen,              \* per connection: the event_stream generator ("none", "created", "running", "ended")
    last_heartbeat,   \* per connection: event_stream's local last_heartbeat
    wait_start,       \* per connection: when event_stream's current wait_for(queue.get(), 1.0) began
    last_yield,       \* per connection: when its stream last yielded (at first: when it started)
    received,         \* the last protocol message that arrived, and the transport it arrived on
    reply,            \* what the gateway sent back for it
    validated,        \* the commands its handling passed to CommandValidator.validate_command
    executed,         \* the commands its handling passed to CommandExecutor.execute
    stdio_running,    \* MCPStdioServer.run is still in its read loop
    verdict,          \* what validate_command reported for the last execute request ("none", "valid", "invalid")
    task_lock,        \* TaskManager.task_lock: how many times the event-loop thread holds the RLock
    cancelling,       \* CommandExecutor.cancel_task in progress under context_lock, after its poll()
    cancelled,        \* ExecutionContext.cancelled of each task
    last_ping,        \* per connection: SSEConnection.last_ping
    cleanup_due,      \* SSEHandler._cleanup_task has slept and not yet swept
    published,        \* the events broadcast_event has chosen the recipients of
    missed,           \* per connection: the events published before it was opened
    task_cleanup_due, \* TaskManager._cleanup_task has slept and not yet swept
    initialized,      \* per transport: the connection that takes the next request has answered an initialize
    non_compliant,    \* the last request was marked as arriving before the handshake
    observers,        \* per event type, the observers add_event_callback appended besides the gateway's
    called,           \* the observer calls made by the last operation: event type and position in its list
    active_connections \* SSEHandler.event_stats["active_connections"]

tmvars == <<tasks, pending_queue, running_tasks, stats, uuid, cancelled_pending>>
gwvars == <<pc, active_contexts, child, desc, signals, exec_result>>
hbvars == <<last_heartbeat, wait_start, last_yield>>
mcpvars == <<received, reply, validated, executed, stdio_running>>
ssrest == <<event_callbacks, connections, conn, conn_uuid, stream, gen, hbvars, mcpvars>>
ssevars == <<event_callbacks, ready, connections, conn, conn_uuid, stream, gen, hbvars, mcpvars>>
vars == <<tasks, pending_queue, running_tasks, stats, uuid, now, last, cancelled_pending,
          pc, active_contexts, child, desc, signals, exec_result,
          event_callbacks, ready, connections, conn, conn_uuid, stream, gen,
          last_heartbeat, wait_start, last_yield, received, reply, validated, executed,
          stdio_running,
          verdict,
          task_lock,
          cancelling,
          cancelled,
          last_ping,
          cleanup_due,
          published,
          missed,
          task_cleanup_due,
          initialized,
          non_compliant,
          observers,
          called,
          active_connections>>

\* ------------------------------------------------------------------- Task
NewTask(priority) ==
    [status |-> PENDING, priority |-> priority, started_at |-> 0, completed_at |-> 0,
     result |-> "none", error |-> "none", progress |-> 0]

is_active(status) == status \in {PENDING, RUNNING}

is_finished_without_timeout(status) == status \in {COMPLETED, FAILED, CANCELLED}

is_finished(status) == status \in {COMPLETED, FAILED, CANCELLED, TIMEOUT}

Call(op, task, arg, ret, fired) ==
    [op |-> op, task |-> task, arg |-> arg, ret |-> ret, fired |-> fired]

\* max(0.0, min(1.0, progress)), in percent
ClampProgress(p) == IF p < 0 THEN 0 ELSE IF p > 100 THEN 100 ELSE p

\* ---------------------------------------------------------- _add_to_queue
RECURSIVE InsertIndexFrom(_, _, _, _, _)
InsertIndexFrom(ts, q, task_id, i, insert_index) ==
    IF i >= Len(q) THEN insert_index
    ELSE IF ts[task_id].priority > ts[q[i + 1]].priority THEN i
    ELSE InsertIndexFrom(ts, q, task_id, i + 1, i + 1)

RECURSIVE InsertIndexFromGe(_, _, _, _, _)
InsertIndexFromGe(ts, q, task_id, i, insert_index) ==
    IF i >= Len(q) THEN insert_index
    ELSE IF ts[task_id].priority >= ts[q[i + 1]].priority THEN i
    ELSE InsertIndexFromGe(ts, q, task_id, i + 1, i + 1)

InsertAt(q, idx, x) == SubSeq(q, 1, idx) \o <<x>> \o SubSeq(q, idx + 1, Len(q))

add_to_queue_ge(ts, q, task_id) == InsertAt(q, InsertIndexFromGe(ts, q, task_id, 0, 0), task_id)

add_to_queue(ts, q, task_id) == InsertAt(q, InsertIndexFrom(ts, q, task_id, 0, 0), task_id)

\* list.remove: drops the first occurrence
\* No cancel_task call is between its poll() and its signal.
NoCancel == [task |-> 0, force |-> "none"]

\* threading.RLock as the event-loop thread uses it: entering a with block takes
\* the lock once more, leaving it gives it back.
acquire(depth) == depth + 1

release_leak(depth) == depth

release(depth) == depth - 1

\* with self.task_lock: ... around a block that neither awaits nor blocks.
with_task_lock(depth) == release(acquire(depth))

\* A cancel that leaves the queue as it is.
remove_nothing(q, x) == q

RECURSIVE remove(_, _)
remove(q, x) ==
    IF q = <<>> THEN <<>>
    ELSE IF Head(q) = x THEN Tail(q)
    ELSE <<Head(q)>> \o remove(Tail(q), x)

InQueue(q, x) == \E i \in 1..Len(q) : q[i] = x

\* ---------------------------------------------------------- _trigger_event
\* The coroutines the callbacks of the fired events hand to asyncio.create_task:
\* one broadcast_event call per fired event that has a callback.
RECURSIVE on_events_from(_, _, _)
on_events_from(callbacks, fired, task_id) ==
    IF fired = <<>> THEN <<>>
    ELSE (IF Head(fired) \in callbacks
          THEN <<[kind |-> "broadcast", event |-> Head(fired), task |-> task_id, conn |-> 0,
                  last |-> FALSE]>>
          ELSE <<>>) \o on_events_from(callbacks, Tail(fired), task_id)

on_events(fired, task_id) == on_events_from(event_callbacks, fired, task_id)

\* The event types TaskManager.event_callbacks has a list for.
EventTypes == {"task_created", "task_started", "task_progress", "task_completed",
               "task_failed", "task_cancelled"}

\* What an observer callback does when it is called.
ObserverBehaviours == {"returns", "raises"}

\* A callback called with nothing around it: its exception reaches the caller.
call_unguarded(behaviour) == behaviour

\* try: callback(task) / except Exception: logger.error(...): the loop of
\* _trigger_event sees the call return whatever the callback did.
call_guarded(behaviour) == "returns"

\* _trigger_event(event_type, task) from callback number i on: the numbers of
\* the callbacks it calls, in order; it stops at a call that raises.
RECURSIVE trigger_event_from(_, _)
trigger_event_from(callbacks, i) ==
    IF i > Len(callbacks) THEN <<>>
    ELSE IF call_guarded(callbacks[i]) = "raises" THEN <<i>>
    ELSE <<i>> \o trigger_event_from(callbacks, i + 1)

trigger_event(callbacks) == trigger_event_from(callbacks, 1)

\* _trigger_event left by an exception: its last call raised.
propagates(callbacks) ==
    LET c == trigger_event(callbacks)
    IN c # <<>> /\ call_guarded(callbacks[c[Len(c)]]) = "raises"

\* The observer calls of one operation that fires the events of fired in
\* order: an exception that leaves _trigger_event leaves the operation.
RECURSIVE observer_calls(_, _)
observer_calls(obs, fired) ==
    IF fired = <<>> THEN <<>>
    ELSE LET c == trigger_event(obs[Head(fired)])
         IN [i \in 1..Len(c) |-> [event |-> Head(fired), index |-> c[i]]]
            \o (IF propagates(obs[Head(fired)]) THEN <<>>
                ELSE observer_calls(obs, Tail(fired)))

\* ----------------------------------------------------- update_task_status
\* The guard of the finished branch without its test of completed_at.
any_finish(task) == is_finished(task.status)

\* The guard of the finished branch: task.is_finished and not task.completed_at.
first_finish(task) == is_finished(task.status) /\ task.completed_at = 0

is_start_from_any(status, old_status) == status = RUNNING

\* The guard of the started branch: RUNNING reached from PENDING.
is_start(status, old_status) == status = RUNNING /\ old_status = PENDING

\* The stores and events of one call; [tasks, stats, fired, ret].
update_task_status(ts, st, task_id, status, progress, error, result, current_time) ==
    IF task_id \notin DOMAIN ts
    THEN [tasks |-> ts, stats |-> st, fired |-> <<>>, ret |-> "false"]
    ELSE LET task == ts[task_id]
             old_status == task.status
             t1 == [task EXCEPT
                       !.status = status,
                       !.progress = IF progress # <<>> THEN ClampProgress(progress[1]) ELSE @,
                       !.error = IF error # "none" THEN error ELSE @,
                       !.result = IF result # "none" THEN result ELSE @]
             started == is_start(status, old_status)
             finishing == ~started /\ first_finish(t1)
             t2 == IF started THEN [t1 EXCEPT !.started_at = current_time]
                   ELSE IF finishing THEN [t1 EXCEPT !.completed_at = current_time]
                   ELSE t1
             st2 == IF ~finishing THEN st
                    ELSE [st EXCEPT
                             !.active_tasks = @ - 1,
                             !.completed_tasks = IF status = COMPLETED THEN @ + 1 ELSE @,
                             !.failed_tasks = IF status = FAILED THEN @ + 1 ELSE @,
                             !.cancelled_tasks = IF status = CANCELLED THEN @ + 1 ELSE @]
             lifecycle == IF started THEN <<"task_started">>
                          ELSE IF finishing /\ status = COMPLETED THEN <<"task_completed">>
                          ELSE IF finishing /\ status = FAILED THEN <<"task_failed">>
                          ELSE IF finishing /\ status = CANCELLED THEN <<"task_cancelled">>
                          ELSE <<>>
             fired == lifecycle \o (IF progress # <<>> THEN <<"task_progress">> ELSE <<>>)
         IN [tasks |-> [ts EXCEPT ![task_id] = t2], stats |-> st2, fired |-> fired,
             ret |-> "true"]

\* ---------------------------------------------------- can_accept_new_task
can_accept_new_task ==
    Cardinality(running_tasks) + Len(pending_queue) < max_concurrent_tasks

\* The tasks whose status is Pending or Running.
ActiveCount == Cardinality({t \in DOMAIN tasks : is_active(tasks[t].status)})

\* ------------------------------------------------------------------- MCP messages
\* A JSON value that is null (Python None), and a key that the object lacks.
Null == "null"
Absent == "absent"

\* MCPErrorCodes
PARSE_ERROR == 0 - 32700
INVALID_REQUEST == 0 - 32600
METHOD_NOT_FOUND == 0 - 32601
INVALID_PARAMS == 0 - 32602
INTERNAL_ERROR == 0 - 32603

\* The ids a client may send: the number 1 and the string "abc".
MessageIds == {"1", "abc"}
IdInputs == {Absent, Null} \cup MessageIds

\* The methods handle_message dispatches on.
KnownMethods == {"initialize", "tools/list", "tools/call", "resources/list", "prompts/list"}
MethodInputs == {Absent} \cup KnownMethods \cup {"notifications/initialized", "tasks/list"}

\* params.name, and params.arguments.command ("nmap" and "rm" stand for a
\* command line; the validator's verdict on it is an input of the step).
ToolInputs == {Absent, "execute_command", "validate_command", "list_supported_tools",
               "no_such_tool"}
CommandInputs == {Absent, "", "nmap", "rm"}

\* What arrives on a transport: an empty body or line, text that is not JSON,
\* JSON that is not an object (an array), or a JSON object with or without each
\* key of the envelope.
NoMessage ==
    [body |-> "empty", jsonrpc |-> FALSE, id |-> Absent, method |-> Absent,
     result |-> FALSE, error |-> FALSE, tool |-> Absent, command |-> Absent]

MessageInputs ==
    {m \in [body : {"empty", "garbage", "array", "object"}, jsonrpc : BOOLEAN, id : IdInputs,
            method : MethodInputs, result : BOOLEAN, error : BOOLEAN,
            tool : ToolInputs, command : CommandInputs] :
        /\ m.body # "object" => m = [NoMessage EXCEPT !.body = m.body]
        /\ m.method # "tools/call" => m.tool = Absent
        /\ m.tool \notin {"execute_command", "validate_command"} => m.command = Absent}

\* The replies: nothing, a JSON-RPC result, a JSON-RPC error, and the object
\* {"error": "Empty request body"} of the POST route.
NoReply ==
    [sent |-> FALSE, jsonrpc |-> FALSE, id |-> Absent, has_result |-> FALSE,
     has_error |-> FALSE, code |-> 0]

Result(request_id) ==
    [sent |-> TRUE, jsonrpc |-> TRUE, id |-> request_id, has_result |-> TRUE,
     has_error |-> FALSE, code |-> 0]

create_error_response_null_id(request_id, error_code) ==
    [sent |-> TRUE, jsonrpc |-> TRUE, id |-> Null, has_result |-> FALSE,
     has_error |-> TRUE, code |-> error_code]

\* _create_error_response
create_error_response(request_id, error_code) ==
    [sent |-> TRUE, jsonrpc |-> TRUE, id |-> request_id, has_result |-> FALSE,
     has_error |-> TRUE, code |-> error_code]

EmptyBodyReply ==
    [sent |-> TRUE, jsonrpc |-> FALSE, id |-> Absent, has_result |-> FALSE,
     has_error |-> TRUE, code |-> 0]

\* message_data.get("id")
get_id(m) == IF m.id = Absent THEN Null ELSE m.id

\* jsonschema.validate against the "request" schema: jsonrpc "2.0" and method
\* required, id a string or a number, no key outside jsonrpc/id/method/params.
valid_request(m) ==
    /\ m.jsonrpc
    /\ m.id \in MessageIds \cup {Absent}
    /\ ~m.result /\ ~m.error

\* ... and against the "response" schema: jsonrpc and id required, exactly one
\* of result and error.
valid_response(m) ==
    /\ m.jsonrpc
    /\ m.id \in MessageIds
    /\ m.result # m.error

\* MessageParser.parse_message on a dict: TRUE when it returns an MCPMessage,
\* FALSE when it raises ValueError.
parse_message(m) ==
    IF m.method # Absent THEN valid_request(m)
    ELSE IF m.result \/ m.error THEN valid_response(m)
    ELSE FALSE

\* The MCPMessage it returns: id and method default to None.
MCPMessage(m) ==
    [id |-> IF m.id = Absent THEN Null ELSE m.id,
     method |-> IF m.method = Absent THEN Null ELSE m.method,
     tool |-> m.tool, command |-> m.command]

Handled(response, validate_calls, execute_calls) ==
    [reply |-> response, validated |-> validate_calls, executed |-> execute_calls]

\* validation_result["valid"], when the handling called the validator at all.
validator_verdict(h, valid) ==
    IF h.validated = <<>> THEN "none" ELSE IF valid THEN "valid" ELSE "invalid"

execute_command_ungated(command, valid) ==
    IF command \in {Absent, ""} THEN [raised |-> TRUE, validated |-> <<>>, executed |-> <<>>]
    ELSE [raised |-> FALSE, validated |-> <<command>>, executed |-> <<command>>]

\* _execute_command: a missing or empty command raises ValueError; a command the
\* validator rejects is not executed; any other goes to CommandExecutor.execute.
execute_command(command, valid) ==
    IF command \in {Absent, ""} THEN [raised |-> TRUE, validated |-> <<>>, executed |-> <<>>]
    ELSE IF ~valid THEN [raised |-> FALSE, validated |-> <<command>>, executed |-> <<>>]
    ELSE [raised |-> FALSE, validated |-> <<command>>, executed |-> <<command>>]

\* _validate_command
validate_command(command) ==
    IF command \in {Absent, ""} THEN [raised |-> TRUE, validated |-> <<>>, executed |-> <<>>]
    ELSE [raised |-> FALSE, validated |-> <<command>>, executed |-> <<>>]

\* _handle_tools_call
handle_tools_call(message, valid) ==
    IF message.tool \in {"execute_command", "validate_command"}
    THEN LET r == IF message.tool = "execute_command"
                  THEN execute_command(message.command, valid)
                  ELSE validate_command(message.command)
         IN IF r.raised
            THEN Handled(create_error_response(message.id, INTERNAL_ERROR), <<>>, <<>>)
            ELSE Handled(Result(message.id), r.validated, r.executed)
    ELSE IF message.tool = "list_supported_tools"
    THEN Handled(Result(message.id), <<>>, <<>>)
    ELSE Handled(create_error_response(message.id, INVALID_PARAMS), <<>>, <<>>)

\* The dispatch on message.method, which MCPSSEConnection.handle_message and
\* MCPStdioServer.handle_message spell out alike.
dispatch(message, valid) ==
    IF message.method = "tools/call" THEN handle_tools_call(message, valid)
    ELSE IF message.method \in KnownMethods THEN Handled(Result(message.id), <<>>, <<>>)
    ELSE Handled(create_error_response(message.id, METHOD_NOT_FOUND), <<>>, <<>>)

\* MCPSSEConnection.handle_message: whatever parse_message raises becomes an
\* InternalError reply with message_data.get("id").
sse_handle_message(m, valid) ==
    IF parse_message(m) THEN dispatch(MCPMessage(m), valid)
    ELSE Handled(create_error_response(get_id(m), INTERNAL_ERROR), <<>>, <<>>)

\* MCPStdioServer.handle_message: a message without an id key is logged and
\* dropped before it is parsed.
stdio_handle_message(m, valid) ==
    IF m.id = Absent THEN Handled(NoReply, <<>>, <<>>)
    ELSE IF parse_message(m) THEN dispatch(MCPMessage(m), valid)
    ELSE Handled(create_error_response(get_id(m), INTERNAL_ERROR), <<>>, <<>>)

\* ------------------------------------------------------------------- Init
\* TaskManager, CommandExecutor and SSEHandler after construction, with the event
\* callbacks registered on the Task Manager.
Construct(callbacks) ==
    /\ tasks = <<>>
    /\ pending_queue = <<>>
    /\ running_tasks = {}
    /\ stats = [total_tasks |-> 0, completed_tasks |-> 0, failed_tasks |-> 0,
                cancelled_tasks |-> 0, active_tasks |-> 0]
    /\ uuid = 0
    /\ now = 1
    /\ last = Call("init", 0, "none", "none", <<>>)
    /\ cancelled_pending = {}
    /\ pc = [t \in TaskIds |-> "none"]
    /\ active_contexts = {}
    /\ child = [t \in TaskIds |-> "none"]
    /\ desc = [t \in TaskIds |-> "none"]
    /\ signals = [t \in TaskIds |-> {}]
    /\ exec_result = [t \in TaskIds |-> "none"]
    /\ event_callbacks = callbacks
    /\ ready = <<>>
    /\ connections = {}
    /\ conn = [c \in ConnIds |-> [subscriptions |-> {}, queue |-> <<>>, active |-> FALSE]]
    /\ conn_uuid = 0
    /\ stream = [c \in ConnIds |-> <<>>]
    /\ gen = [c \in ConnIds |-> "none"]
    /\ last_heartbeat = [c \in ConnIds |-> 0]
    /\ wait_start = [c \in ConnIds |-> 0]
    /\ last_yield = [c \in ConnIds |-> 0]
    /\ received = [transport |-> "none", message |-> NoMessage]
    /\ reply = NoReply
    /\ validated = <<>>
    /\ executed = <<>>
    /\ stdio_running = TRUE
    /\ verdict = "none"
    /\ task_lock = 0
    /\ cancelling = NoCancel
    /\ cancelled = [t \in TaskIds |-> FALSE]
    /\ last_ping = [c \in ConnIds |-> 0]
    /\ cleanup_due = FALSE
    /\ published = {}
    /\ missed = [c \in ConnIds |-> {}]
    /\ task_cleanup_due = FALSE
    /\ initialized = [x \in {"post", "stdio"} |-> FALSE]
    /\ non_compliant = FALSE
    /\ observers = [e \in EventTypes |-> <<>>]
    /\ called = <<>>
    /\ active_connections = 0

\* A Task Manager on its own: no observer is registered.
Init == Construct({})

\* The server after MCPServer.__init__, which ends with _setup_event_callbacks.
ServerInit == Construct(GatewayCallbacks)

\* ----------------------------------------------------- Task Manager calls
\* time.time() advances between calls.
Tick ==
    /\ now < MaxClock
    /\ now' = now + 1
    /\ last' = Call("tick", 0, "none", "none", <<>>)
    /\ UNCHANGED <<tmvars, gwvars>>
    /\ UNCHANGED ssevars
    /\ UNCHANGED verdict
    /\ UNCHANGED task_lock
    /\ UNCHANGED cancelling
    /\ UNCHANGED cancelled
    /\ UNCHANGED last_ping
    /\ UNCHANGED cleanup_due
    /\ UNCHANGED published
    /\ UNCHANGED missed
    /\ UNCHANGED task_cleanup_due
    /\ UNCHANGED initialized
    /\ UNCHANGED non_compliant
    /\ UNCHANGED observers
    /\ called' = <<>>
    /\ UNCHANGED active_connections

\* create_task(priority=priority), called without the gateway's admission check;
\* at most max_tasks ids are drawn.
CreateTask(priority, max_tasks) ==
    /\ uuid < max_tasks
    /\ LET task_id == uuid + 1
           ts == (task_id :> NewTask(priority)) @@ tasks
       IN /\ tasks' = ts
          /\ pending_queue' = add_to_queue(ts, pending_queue, task_id)
          /\ stats' = [stats EXCEPT !.total_tasks = @ + 1, !.active_tasks = @ + 1]
          /\ uuid' = task_id
          /\ last' = Call("create_task", task_id, "none", "id", <<"task_created">>)
    /\ UNCHANGED <<running_tasks, cancelled_pending, now, gwvars>>
    /\ ready' = ready \o on_events(last'.fired, last'.task)
    /\ UNCHANGED ssrest
    /\ UNCHANGED verdict
    /\ task_lock' = with_task_lock(task_lock)
    /\ UNCHANGED cancelling
    /\ UNCHANGED cancelled
    /\ UNCHANGED last_ping
    /\ UNCHANGED cleanup_due
    /\ UNCHANGED published
    /\ UNCHANGED missed
    /\ UNCHANGED task_cleanup_due
    /\ UNCHANGED initialized
    /\ UNCHANGED non_compliant
    /\ UNCHANGED observers
    /\ called' = observer_calls(observers, last'.fired)
    /\ UNCHANGED active_connections

\* _add_to_queue raises KeyError: its loop reaches a queued id that is not a key
\* of the registry before it meets a task of lower priority.
raises_key_error(ts, q, priority) ==
    \E j \in 1..Len(q) :
        /\ q[j] \notin DOMAIN ts
        /\ \A i \in 1..(j - 1) : q[i] \in DOMAIN ts /\ ~(priority > ts[q[i]].priority)

\* create_task when _add_to_queue raises: the task has been put into the registry,
\* the queue and the statistics are not reached, no event is fired, and the
\* KeyError leaves create_task.
CreateTaskKeyError(priority, max_tasks) ==
    /\ uuid < max_tasks
    /\ raises_key_error(tasks, pending_queue, priority)
    /\ LET task_id == uuid + 1
       IN /\ tasks' = (task_id :> NewTask(priority)) @@ tasks
          /\ uuid' = task_id
          /\ last' = Call("create_task", task_id, "none", "KeyError", <<>>)
    /\ UNCHANGED <<pending_queue, running_tasks, stats, cancelled_pending, now, gwvars>>
    /\ UNCHANGED ssevars
    /\ UNCHANGED <<verdict, cancelling, cancelled, last_ping, cleanup_due, published, missed,
                   task_cleanup_due, initialized, non_compliant>>
    /\ task_lock' = with_task_lock(task_lock)
    /\ UNCHANGED observers
    /\ called' = <<>>
    /\ UNCHANGED active_connections

\* update_task_status(task_id, status) by any caller.
UpdateTaskStatus(task_id, status) ==
    /\ LET u == update_task_status(tasks, stats, task_id, status, <<>>, "none", "none", now)
       IN /\ tasks' = u.tasks
          /\ stats' = u.stats
          /\ last' = Call("update_task_status", task_id, status, u.ret, u.fired)
    /\ UNCHANGED <<pending_queue, running_tasks, uuid, cancelled_pending, now, gwvars>>
    /\ ready' = ready \o on_events(last'.fired, last'.task)
    /\ UNCHANGED ssrest
    /\ UNCHANGED verdict
    /\ task_lock' = with_task_lock(task_lock)
    /\ UNCHANGED cancelling
    /\ UNCHANGED cancelled
    /\ UNCHANGED last_ping
    /\ UNCHANGED cleanup_due
    /\ UNCHANGED published
    /\ UNCHANGED missed
    /\ UNCHANGED task_cleanup_due
    /\ UNCHANGED initialized
    /\ UNCHANGED non_compliant
    /\ UNCHANGED observers
    /\ called' = observer_calls(observers, last'.fired)
    /\ UNCHANGED active_connections

\* cancel_task(task_id, force); force is not read by the Task Manager.
CancelTask(task_id) ==
    /\ IF task_id \notin DOMAIN tasks \/ is_finished(tasks[task_id].status)
       THEN /\ last' = Call("cancel_task", task_id, "none", "false", <<>>)
            /\ UNCHANGED tmvars
       ELSE LET u == update_task_status(tasks, stats, task_id, CANCELLED, <<>>, "none", "none", now)
            IN /\ pending_queue' = remove(pending_queue, task_id)
               /\ running_tasks' = running_tasks \ {task_id}
               /\ tasks' = u.tasks
               /\ stats' = u.stats
               /\ cancelled_pending' = IF tasks[task_id].status = PENDING
                                       THEN cancelled_pending \cup {task_id}
                                       ELSE cancelled_pending
               /\ last' = Call("cancel_task", task_id, "none", "true", u.fired)
               /\ UNCHANGED uuid
    /\ UNCHANGED <<now, gwvars>>
    /\ ready' = ready \o on_events(last'.fired, last'.task)
    /\ UNCHANGED ssrest
    /\ UNCHANGED verdict
    /\ task_lock' = release(with_task_lock(acquire(task_lock)))
    /\ UNCHANGED cancelling
    /\ UNCHANGED cancelled
    /\ UNCHANGED last_ping
    /\ UNCHANGED cleanup_due
    /\ UNCHANGED published
    /\ UNCHANGED missed
    /\ UNCHANGED task_cleanup_due
    /\ UNCHANGED initialized
    /\ UNCHANGED non_compliant
    /\ UNCHANGED observers
    /\ called' = observer_calls(observers, last'.fired)
    /\ UNCHANGED active_connections

\* add_event_callback(event_type, callback): appended when the event type is
\* one of the keys, dropped without a word otherwise.
AddEventCallback(event_type, behaviour) ==
    /\ observers' = IF event_type \in EventTypes
                    THEN [observers EXCEPT ![event_type] = Append(@, behaviour)]
                    ELSE observers
    /\ last' = Call("add_event_callback", 0, event_type, "none", <<>>)
    /\ called' = <<>>
    /\ UNCHANGED <<tmvars, now, gwvars>>
    /\ UNCHANGED ssevars
    /\ UNCHANGED <<verdict, task_lock, cancelling, cancelled, last_ping, cleanup_due,
                   published, missed, task_cleanup_due, initialized, non_compliant>>
    /\ UNCHANGED active_connections

\* get_next_task(): the popped id, or 0 for None.
GetNextTask ==
    /\ IF pending_queue # <<>>
       THEN /\ pending_queue' = Tail(pending_queue)
            /\ last' = Call("get_next_task", Head(pending_queue), "none", "id", <<>>)
       ELSE /\ pending_queue' = pending_queue
            /\ last' = Call("get_next_task", 0, "none", "none", <<>>)
    /\ UNCHANGED <<tasks, running_tasks, stats, uuid, cancelled_pending, now, gwvars>>
    /\ UNCHANGED ssevars
    /\ UNCHANGED verdict
    /\ task_lock' = with_task_lock(task_lock)
    /\ UNCHANGED cancelling
    /\ UNCHANGED cancelled
    /\ UNCHANGED last_ping
    /\ UNCHANGED cleanup_due
    /\ UNCHANGED published
    /\ UNCHANGED missed
    /\ UNCHANGED task_cleanup_due
    /\ UNCHANGED initialized
    /\ UNCHANGED non_compliant
    /\ UNCHANGED observers
    /\ called' = <<>>
    /\ UNCHANGED active_connections

\* mark_task_running(task_id, async_task)
MarkTaskRunning(task_id) ==
    /\ LET u == update_task_status(tasks, stats, task_id, RUNNING, <<>>, "none", "none", now)
       IN /\ running_tasks' = running_tasks \cup {task_id}
          /\ tasks' = u.tasks
          /\ stats' = u.stats
          /\ last' = Call("mark_task_running", task_id, "none", "none", u.fired)
    /\ UNCHANGED <<pending_queue, uuid, cancelled_pending, now, gwvars>>
    /\ ready' = ready \o on_events(last'.fired, last'.task)
    /\ UNCHANGED ssrest
    /\ UNCHANGED verdict
    /\ task_lock' = release(with_task_lock(acquire(task_lock)))
    /\ UNCHANGED cancelling
    /\ UNCHANGED cancelled
    /\ UNCHANGED last_ping
    /\ UNCHANGED cleanup_due
    /\ UNCHANGED published
    /\ UNCHANGED missed
    /\ UNCHANGED task_cleanup_due
    /\ UNCHANGED initialized
    /\ UNCHANGED non_compliant
    /\ UNCHANGED observers
    /\ called' = observer_calls(observers, last'.fired)
    /\ UNCHANGED active_connections

\* _cleanup_task: the seconds between two sweeps, and the age beyond which a
\* finished task is dropped.
task_cleanup_interval == 3600

max_age == 86400

\* _cleanup_task: await asyncio.sleep(3600).
TaskCleanupSleep ==
    /\ ~task_cleanup_due
    /\ now + task_cleanup_interval <= MaxTaskSweepClock
    /\ now' = now + task_cleanup_interval
    /\ task_cleanup_due' = TRUE
    /\ last' = Call("sleep", 0, "none", "none", <<>>)
    /\ UNCHANGED <<tmvars, gwvars, ssevars>>
    /\ UNCHANGED <<verdict, task_lock, cancelling, cancelled, last_ping, cleanup_due, published,
                   missed>>
    /\ UNCHANGED initialized
    /\ UNCHANGED non_compliant
    /\ UNCHANGED observers
    /\ called' = <<>>
    /\ UNCHANGED active_connections

\* The test with the status left out: any task whose completed_at is old enough.
expired_whatever_status(task, current_time) ==
    /\ task.completed_at # 0
    /\ current_time - task.completed_at > max_age

\* The test of _cleanup_task on one task: finished, with a completed_at, and
\* completed more than max_age ago.
expired(task, current_time) ==
    /\ is_finished(task.status)
    /\ task.completed_at # 0
    /\ current_time - task.completed_at > max_age

tasks_to_remove(current_time) == {t \in DOMAIN tasks : expired(tasks[t], current_time)}

\* _cleanup_task after its sleep: the expired tasks are collected under task_lock
\* and deleted from the registry one by one; the queue, the running map and the
\* statistics are not touched.
TaskSweep ==
    /\ task_cleanup_due
    /\ task_cleanup_due' = FALSE
    /\ tasks' = [t \in DOMAIN tasks \ tasks_to_remove(now) |-> tasks[t]]
    /\ last' = Call("_cleanup_task", 0, "tasks", "none", <<>>)
    /\ UNCHANGED <<pending_queue, running_tasks, stats, uuid, cancelled_pending, now, gwvars>>
    /\ UNCHANGED ssevars
    /\ UNCHANGED <<verdict, cancelling, cancelled, last_ping, cleanup_due, published, missed>>
    /\ task_lock' = with_task_lock(with_task_lock(task_lock))
    /\ UNCHANGED initialized
    /\ UNCHANGED non_compliant
    /\ UNCHANGED observers
    /\ called' = <<>>
    /\ UNCHANGED active_connections

\* ------------------------------------------------ gateway: execute_command
\* _execute_command_async, admission refused: the system_overload reply.
SubmitRejected ==
    /\ ~can_accept_new_task
    /\ last' = Call("execute_command", 0, "none", "system_overload", <<>>)
    /\ UNCHANGED <<tmvars, now, gwvars>>
    /\ UNCHANGED ssevars
    /\ verdict' = "valid"
    /\ task_lock' = with_task_lock(task_lock)
    /\ UNCHANGED cancelling
    /\ UNCHANGED cancelled
    /\ UNCHANGED last_ping
    /\ UNCHANGED cleanup_due
    /\ UNCHANGED published
    /\ UNCHANGED missed
    /\ UNCHANGED task_cleanup_due
    /\ UNCHANGED initialized
    /\ UNCHANGED non_compliant
    /\ UNCHANGED observers
    /\ called' = <<>>
    /\ UNCHANGED active_connections

\* _execute_command_async with options.async = true: create_task, then
\* asyncio.create_task(_execute_task_async(task_id)) and the "started" reply.
SubmitAsync(priority) ==
    /\ can_accept_new_task
    /\ uuid < MaxGatewayTasks
    /\ LET task_id == uuid + 1
           ts == (task_id :> NewTask(priority)) @@ tasks
       IN /\ tasks' = ts
          /\ pending_queue' = add_to_queue(ts, pending_queue, task_id)
          /\ stats' = [stats EXCEPT !.total_tasks = @ + 1, !.active_tasks = @ + 1]
          /\ uuid' = task_id
          /\ pc' = [pc EXCEPT ![task_id] = "scheduled"]
          /\ last' = Call("execute_command", task_id, "none", "started", <<"task_created">>)
    /\ UNCHANGED <<running_tasks, cancelled_pending, now, active_contexts, child, desc,
                   signals, exec_result>>
    /\ ready' = ready \o on_events(last'.fired, last'.task)
    /\ UNCHANGED ssrest
    /\ verdict' = "valid"
    /\ task_lock' = with_task_lock(with_task_lock(task_lock))
    /\ UNCHANGED cancelling
    /\ UNCHANGED cancelled
    /\ UNCHANGED last_ping
    /\ UNCHANGED cleanup_due
    /\ UNCHANGED published
    /\ UNCHANGED missed
    /\ UNCHANGED task_cleanup_due
    /\ UNCHANGED initialized
    /\ UNCHANGED non_compliant
    /\ UNCHANGED observers
    /\ called' = observer_calls(observers, last'.fired)
    /\ UNCHANGED active_connections

\* _execute_command_async with options.async = false: create_task, then the awaited
\* _execute_task_async runs without suspension up to its asyncio.to_thread.
SubmitSync(priority) ==
    /\ can_accept_new_task
    /\ uuid < MaxGatewayTasks
    /\ LET task_id == uuid + 1
           ts == (task_id :> NewTask(priority)) @@ tasks
           st == [stats EXCEPT !.total_tasks = @ + 1, !.active_tasks = @ + 1]
           u == update_task_status(ts, st, task_id, RUNNING, <<>>, "none", "none", now)
       IN /\ tasks' = u.tasks
          /\ pending_queue' = add_to_queue(ts, pending_queue, task_id)
          /\ stats' = u.stats
          /\ uuid' = task_id
          /\ pc' = [pc EXCEPT ![task_id] = "to_thread"]
          /\ last' = Call("execute_command", task_id, "none", "running", <<"task_created">> \o u.fired)
    /\ UNCHANGED <<running_tasks, cancelled_pending, now, active_contexts, child, desc,
                   signals, exec_result>>
    /\ ready' = ready \o on_events(last'.fired, last'.task)
    /\ UNCHANGED ssrest
    /\ verdict' = "valid"
    /\ task_lock' = with_task_lock(with_task_lock(with_task_lock(with_task_lock(task_lock))))
    /\ UNCHANGED cancelling
    /\ UNCHANGED cancelled
    /\ UNCHANGED last_ping
    /\ UNCHANGED cleanup_due
    /\ UNCHANGED published
    /\ UNCHANGED missed
    /\ UNCHANGED task_cleanup_due
    /\ UNCHANGED initialized
    /\ UNCHANGED non_compliant
    /\ UNCHANGED observers
    /\ called' = observer_calls(observers, last'.fired)
    /\ UNCHANGED active_connections

\* _execute_task_async as scheduled by asyncio.create_task: get_task, then
\* update_task_status(task_id, RUNNING), then the hand-over to asyncio.to_thread.
ExecuteTaskStart(task_id) ==
    /\ pc[task_id] = "scheduled"
    /\ IF task_id \notin DOMAIN tasks
       THEN /\ pc' = [pc EXCEPT ![task_id] = "done"]
            /\ last' = Call("_execute_task_async", task_id, "none", "task_not_found", <<>>)
            /\ UNCHANGED <<tasks, stats>>
       ELSE LET u == update_task_status(tasks, stats, task_id, RUNNING, <<>>, "none", "none", now)
            IN /\ tasks' = u.tasks
               /\ stats' = u.stats
               /\ pc' = [pc EXCEPT ![task_id] = "to_thread"]
               /\ last' = Call("update_task_status", task_id, RUNNING, u.ret, u.fired)
    /\ UNCHANGED <<pending_queue, running_tasks, uuid, cancelled_pending, now,
                   active_contexts, child, desc, signals, exec_result>>
    /\ ready' = ready \o on_events(last'.fired, last'.task)
    /\ UNCHANGED ssrest
    /\ UNCHANGED verdict
    /\ task_lock' = with_task_lock(with_task_lock(task_lock))
    /\ UNCHANGED cancelling
    /\ UNCHANGED cancelled
    /\ UNCHANGED last_ping
    /\ UNCHANGED cleanup_due
    /\ UNCHANGED published
    /\ UNCHANGED missed
    /\ UNCHANGED task_cleanup_due
    /\ UNCHANGED initialized
    /\ UNCHANGED non_compliant
    /\ UNCHANGED observers
    /\ called' = observer_calls(observers, last'.fired)
    /\ UNCHANGED active_connections

\* ------------------------------------------------------- CommandExecutor
\* context_lock is free: execute's registration and its finally block wait for a
\* cancel_task call that is inside its with block.
context_lock_free == cancelling = NoCancel

\* execute, in the worker thread: the context is put into active_contexts.
ExecuteBegin(task_id) ==
    /\ pc[task_id] = "to_thread"
    /\ context_lock_free
    /\ active_contexts' = active_contexts \cup {task_id}
    /\ pc' = [pc EXCEPT ![task_id] = "registered"]
    /\ last' = Call("execute", task_id, "none", "none", <<>>)
    /\ UNCHANGED <<tmvars, now, child, desc, signals, exec_result>>
    /\ UNCHANGED ssevars
    /\ UNCHANGED verdict
    /\ UNCHANGED task_lock
    /\ UNCHANGED cancelling
    /\ UNCHANGED cancelled
    /\ UNCHANGED last_ping
    /\ UNCHANGED cleanup_due
    /\ UNCHANGED published
    /\ UNCHANGED missed
    /\ UNCHANGED task_cleanup_due
    /\ UNCHANGED initialized
    /\ UNCHANGED non_compliant
    /\ UNCHANGED observers
    /\ called' = <<>>
    /\ UNCHANGED active_connections

\* _execute_command: _parse_command and subprocess.Popen succeed.
Spawn(task_id) ==
    /\ pc[task_id] = "registered"
    /\ child' = [child EXCEPT ![task_id] = "alive"]
    /\ pc' = [pc EXCEPT ![task_id] = "communicate"]
    /\ last' = Call("Popen", task_id, "none", "none", <<>>)
    /\ UNCHANGED <<tmvars, now, active_contexts, desc, signals, exec_result>>
    /\ UNCHANGED ssevars
    /\ UNCHANGED verdict
    /\ UNCHANGED task_lock
    /\ UNCHANGED cancelling
    /\ UNCHANGED cancelled
    /\ UNCHANGED last_ping
    /\ UNCHANGED cleanup_due
    /\ UNCHANGED published
    /\ UNCHANGED missed
    /\ UNCHANGED task_cleanup_due
    /\ UNCHANGED initialized
    /\ UNCHANGED non_compliant
    /\ UNCHANGED observers
    /\ called' = <<>>
    /\ UNCHANGED active_connections

\* _execute_command: _parse_command or Popen raises; _create_error_result, and
\* execute's finally drops the context.
SpawnFail(task_id) ==
    /\ pc[task_id] = "registered"
    /\ context_lock_free
    /\ exec_result' = [exec_result EXCEPT ![task_id] = "error"]
    /\ active_contexts' = active_contexts \ {task_id}
    /\ pc' = [pc EXCEPT ![task_id] = "returned"]
    /\ last' = Call("execute", task_id, "none", "error", <<>>)
    /\ UNCHANGED <<tmvars, now, child, desc, signals>>
    /\ UNCHANGED ssevars
    /\ UNCHANGED verdict
    /\ UNCHANGED task_lock
    /\ UNCHANGED cancelling
    /\ UNCHANGED cancelled
    /\ UNCHANGED last_ping
    /\ UNCHANGED cleanup_due
    /\ UNCHANGED published
    /\ UNCHANGED missed
    /\ UNCHANGED task_cleanup_due
    /\ UNCHANGED initialized
    /\ UNCHANGED non_compliant
    /\ UNCHANGED observers
    /\ called' = <<>>
    /\ UNCHANGED active_connections

\* The command forks; the descendant inherits the process group of os.setpgrp().
Fork(task_id) ==
    /\ child[task_id] = "alive"
    /\ desc[task_id] = "none"
    /\ desc' = [desc EXCEPT ![task_id] = "alive"]
    /\ last' = Call("fork", task_id, "none", "none", <<>>)
    /\ UNCHANGED <<tmvars, now, pc, active_contexts, child, signals, exec_result>>
    /\ UNCHANGED ssevars
    /\ UNCHANGED verdict
    /\ UNCHANGED task_lock
    /\ UNCHANGED cancelling
    /\ UNCHANGED cancelled
    /\ UNCHANGED last_ping
    /\ UNCHANGED cleanup_due
    /\ UNCHANGED published
    /\ UNCHANGED missed
    /\ UNCHANGED task_cleanup_due
    /\ UNCHANGED initialized
    /\ UNCHANGED non_compliant
    /\ UNCHANGED observers
    /\ called' = <<>>
    /\ UNCHANGED active_connections

\* The descendant exits by itself.
DescendantExit(task_id) ==
    /\ desc[task_id] = "alive"
    /\ desc' = [desc EXCEPT ![task_id] = "none"]
    /\ last' = Call("descendant_exit", task_id, "none", "none", <<>>)
    /\ UNCHANGED <<tmvars, now, pc, active_contexts, child, signals, exec_result>>
    /\ UNCHANGED ssevars
    /\ UNCHANGED verdict
    /\ UNCHANGED task_lock
    /\ UNCHANGED cancelling
    /\ UNCHANGED cancelled
    /\ UNCHANGED last_ping
    /\ UNCHANGED cleanup_due
    /\ UNCHANGED published
    /\ UNCHANGED missed
    /\ UNCHANGED task_cleanup_due
    /\ UNCHANGED initialized
    /\ UNCHANGED non_compliant
    /\ UNCHANGED observers
    /\ called' = <<>>
    /\ UNCHANGED active_connections

\* The child exits: by itself, or on a SIGTERM it does not ignore.
ChildExit(task_id) ==
    /\ child[task_id] = "alive"
    /\ child' = [child EXCEPT ![task_id] = "dead"]
    /\ last' = Call("child_exit", task_id, "none", "none", <<>>)
    /\ UNCHANGED <<tmvars, now, pc, active_contexts, desc, signals, exec_result>>
    /\ UNCHANGED ssevars
    /\ UNCHANGED verdict
    /\ UNCHANGED task_lock
    /\ UNCHANGED cancelling
    /\ UNCHANGED cancelled
    /\ UNCHANGED last_ping
    /\ UNCHANGED cleanup_due
    /\ UNCHANGED published
    /\ UNCHANGED missed
    /\ UNCHANGED task_cleanup_due
    /\ UNCHANGED initialized
    /\ UNCHANGED non_compliant
    /\ UNCHANGED observers
    /\ called' = <<>>
    /\ UNCHANGED active_connections

\* process.communicate(timeout) returns; _create_success_result, whose success
\* is return_code == 0.
CommunicateReturn(task_id, outcome) ==
    /\ pc[task_id] = "communicate"
    /\ child[task_id] = "dead"
    /\ context_lock_free
    /\ exec_result' = [exec_result EXCEPT ![task_id] = outcome]
    /\ active_contexts' = active_contexts \ {task_id}
    /\ pc' = [pc EXCEPT ![task_id] = "returned"]
    /\ last' = Call("execute", task_id, "none", outcome, <<>>)
    /\ UNCHANGED <<tmvars, now, child, desc, signals>>
    /\ UNCHANGED ssevars
    /\ UNCHANGED verdict
    /\ UNCHANGED task_lock
    /\ UNCHANGED cancelling
    /\ UNCHANGED cancelled
    /\ UNCHANGED last_ping
    /\ UNCHANGED cleanup_due
    /\ UNCHANGED published
    /\ UNCHANGED missed
    /\ UNCHANGED task_cleanup_due
    /\ UNCHANGED initialized
    /\ UNCHANGED non_compliant
    /\ UNCHANGED observers
    /\ called' = <<>>
    /\ UNCHANGED active_connections

\* process.communicate raises subprocess.TimeoutExpired.
TimeoutExpired(task_id) ==
    /\ pc[task_id] = "communicate"
    /\ child[task_id] = "alive"
    /\ pc' = [pc EXCEPT ![task_id] = "timed_out"]
    /\ last' = Call("TimeoutExpired", task_id, "none", "none", <<>>)
    /\ UNCHANGED <<tmvars, now, active_contexts, child, desc, signals, exec_result>>
    /\ UNCHANGED ssevars
    /\ UNCHANGED verdict
    /\ UNCHANGED task_lock
    /\ UNCHANGED cancelling
    /\ UNCHANGED cancelled
    /\ UNCHANGED last_ping
    /\ UNCHANGED cleanup_due
    /\ UNCHANGED published
    /\ UNCHANGED missed
    /\ UNCHANGED task_cleanup_due
    /\ UNCHANGED initialized
    /\ UNCHANGED non_compliant
    /\ UNCHANGED observers
    /\ called' = <<>>
    /\ UNCHANGED active_connections

\* What process.terminate() and process.kill() signal: the pid of the Popen child.
SignalTargets == {"child"}

\* The timeout branch as it would be if TimeoutExpired left execute without a result.
TimeoutUnresolved(task_id) ==
    /\ exec_result' = exec_result
    /\ active_contexts' = active_contexts \ {task_id}
    /\ pc' = [pc EXCEPT ![task_id] = "returned"]
    /\ last' = Call("execute", task_id, "none", "none", <<>>)

\* The result of the timeout branch: return_code -1, then _create_success_result.
TimeoutResult(task_id) ==
    /\ context_lock_free
    /\ exec_result' = [exec_result EXCEPT ![task_id] = "timeout"]
    /\ active_contexts' = active_contexts \ {task_id}
    /\ pc' = [pc EXCEPT ![task_id] = "returned"]
    /\ last' = Call("execute", task_id, "none", "timeout", <<>>)

\* _terminate_process: poll(); a child that is still running gets terminate().
TerminateProcess(task_id) ==
    /\ pc[task_id] = "timed_out"
    /\ IF child[task_id] = "alive"
       THEN /\ signals' = [signals EXCEPT ![task_id] = @ \cup {"SIGTERM"}]
            /\ pc' = [pc EXCEPT ![task_id] = "terminate_wait"]
            /\ last' = Call("terminate", task_id, "none", "none", <<>>)
            /\ UNCHANGED <<active_contexts, exec_result>>
       ELSE /\ TimeoutResult(task_id)
            /\ UNCHANGED signals
    /\ UNCHANGED <<tmvars, now, child, desc>>
    /\ UNCHANGED ssevars
    /\ UNCHANGED verdict
    /\ UNCHANGED task_lock
    /\ UNCHANGED cancelling
    /\ UNCHANGED cancelled
    /\ UNCHANGED last_ping
    /\ UNCHANGED cleanup_due
    /\ UNCHANGED published
    /\ UNCHANGED missed
    /\ UNCHANGED task_cleanup_due
    /\ UNCHANGED initialized
    /\ UNCHANGED non_compliant
    /\ UNCHANGED observers
    /\ called' = <<>>
    /\ UNCHANGED active_connections

\* _terminate_process: process.wait(timeout=5) returns, the child is gone.
TerminateWaitReturn(task_id) ==
    /\ pc[task_id] = "terminate_wait"
    /\ child[task_id] = "dead"
    /\ TimeoutResult(task_id)
    /\ UNCHANGED <<tmvars, now, child, desc, signals>>
    /\ UNCHANGED ssevars
    /\ UNCHANGED verdict
    /\ UNCHANGED task_lock
    /\ UNCHANGED cancelling
    /\ UNCHANGED cancelled
    /\ UNCHANGED last_ping
    /\ UNCHANGED cleanup_due
    /\ UNCHANGED published
    /\ UNCHANGED missed
    /\ UNCHANGED task_cleanup_due
    /\ UNCHANGED initialized
    /\ UNCHANGED non_compliant
    /\ UNCHANGED observers
    /\ called' = <<>>
    /\ UNCHANGED active_connections

\* _terminate_process: the grace period expires; process.kill() and process.wait().
TerminateKill(task_id) ==
    /\ pc[task_id] = "terminate_wait"
    /\ child[task_id] = "alive"
    /\ signals' = [signals EXCEPT ![task_id] = @ \cup {"SIGKILL"}]
    /\ child' = [child EXCEPT ![task_id] = "dead"]
    /\ desc' = [desc EXCEPT ![task_id] =
                   IF "group" \in SignalTargets THEN "none" ELSE @]
    /\ TimeoutResult(task_id)
    /\ UNCHANGED <<tmvars, now>>
    /\ UNCHANGED ssevars
    /\ UNCHANGED verdict
    /\ UNCHANGED task_lock
    /\ UNCHANGED cancelling
    /\ UNCHANGED cancelled
    /\ UNCHANGED last_ping
    /\ UNCHANGED cleanup_due
    /\ UNCHANGED published
    /\ UNCHANGED missed
    /\ UNCHANGED task_cleanup_due
    /\ UNCHANGED initialized
    /\ UNCHANGED non_compliant
    /\ UNCHANGED observers
    /\ called' = <<>>
    /\ UNCHANGED active_connections

\* What cancel_task sends: kill() when force, terminate() otherwise.
cancel_signal(force) == IF force = "force" THEN "SIGKILL" ELSE "SIGTERM"

\* CommandExecutor.cancel_task up to its poll(): False for an id without a context,
\* True for a context whose process is not there or has exited; a process found
\* running is signalled in the next step, with context_lock still held.
ExecutorCancel(task_id, force) ==
    /\ context_lock_free
    /\ IF task_id \notin active_contexts
       THEN /\ last' = Call("executor.cancel_task", task_id, force, "false", <<>>)
            /\ UNCHANGED cancelling
       ELSE IF child[task_id] = "alive"
            THEN /\ cancelling' = [task |-> task_id, force |-> force]
                 /\ last' = Call("poll", task_id, force, "running", <<>>)
            ELSE /\ last' = Call("executor.cancel_task", task_id, force, "true", <<>>)
                 /\ UNCHANGED cancelling
    /\ UNCHANGED <<tmvars, now, gwvars, cancelled>>
    /\ UNCHANGED ssevars
    /\ UNCHANGED verdict
    /\ UNCHANGED task_lock
    /\ UNCHANGED last_ping
    /\ UNCHANGED cleanup_due
    /\ UNCHANGED published
    /\ UNCHANGED missed
    /\ UNCHANGED task_cleanup_due
    /\ UNCHANGED initialized
    /\ UNCHANGED non_compliant
    /\ UNCHANGED observers
    /\ called' = <<>>
    /\ UNCHANGED active_connections

\* CommandExecutor.cancel_task after its poll(): context.cancelled = True, then
\* kill() or terminate(), which does nothing to a child that exited meanwhile,
\* and the return of True.
ExecutorCancelSignal ==
    /\ cancelling # NoCancel
    /\ LET task_id == cancelling.task
           sig == cancel_signal(cancelling.force)
       IN /\ cancelled' = [cancelled EXCEPT ![task_id] = TRUE]
          /\ IF child[task_id] = "alive"
             THEN /\ signals' = [signals EXCEPT ![task_id] = @ \cup {sig}]
                  /\ child' = [child EXCEPT ![task_id] = IF sig = "SIGKILL" THEN "dead" ELSE @]
             ELSE UNCHANGED <<signals, child>>
          /\ last' = Call("executor.cancel_task", task_id, cancelling.force, "true", <<>>)
    /\ cancelling' = NoCancel
    /\ UNCHANGED <<tmvars, now, pc, active_contexts, desc, exec_result>>
    /\ UNCHANGED ssevars
    /\ UNCHANGED verdict
    /\ UNCHANGED task_lock
    /\ UNCHANGED last_ping
    /\ UNCHANGED cleanup_due
    /\ UNCHANGED published
    /\ UNCHANGED missed
    /\ UNCHANGED task_cleanup_due
    /\ UNCHANGED initialized
    /\ UNCHANGED non_compliant
    /\ UNCHANGED observers
    /\ called' = <<>>
    /\ UNCHANGED active_connections

\* _execute_task_async after asyncio.to_thread: the result is stored with
\* COMPLETED (progress 1.0) or with FAILED (error result.get("error", default)).
ExecuteTaskFinish(task_id) ==
    /\ pc[task_id] = "returned"
    /\ LET r == exec_result[task_id]
           u == IF r = "ok"
                THEN update_task_status(tasks, stats, task_id, COMPLETED, <<100>>, "none", r, now)
                ELSE update_task_status(tasks, stats, task_id, FAILED, <<>>,
                                        IF r = "error" THEN "exception" ELSE "default", r, now)
       IN /\ tasks' = u.tasks
          /\ stats' = u.stats
          /\ last' = Call("update_task_status", task_id, IF r = "ok" THEN COMPLETED ELSE FAILED,
                           u.ret, u.fired)
    /\ pc' = [pc EXCEPT ![task_id] = "done"]
    /\ UNCHANGED <<pending_queue, running_tasks, uuid, cancelled_pending, now,
                   active_contexts, child, desc, signals, exec_result>>
    /\ ready' = ready \o on_events(last'.fired, last'.task)
    /\ UNCHANGED ssrest
    /\ UNCHANGED verdict
    /\ task_lock' = with_task_lock(task_lock)
    /\ UNCHANGED cancelling
    /\ UNCHANGED cancelled
    /\ UNCHANGED last_ping
    /\ UNCHANGED cleanup_due
    /\ UNCHANGED published
    /\ UNCHANGED missed
    /\ UNCHANGED task_cleanup_due
    /\ UNCHANGED initialized
    /\ UNCHANGED non_compliant
    /\ UNCHANGED observers
    /\ called' = observer_calls(observers, last'.fired)
    /\ UNCHANGED active_connections

\* ------------------------------------------------------------- SSEHandler
\* SSEConnection.is_subscribed
is_subscribed(c, event_type) ==
    event_type \in conn[c].subscriptions \/ "*" \in conn[c].subscriptions

\* asyncio.Queue(): maxsize 0, so put never waits for a consumer.
queue_maxsize == 0

put_blocks_when_one_queued(q) == Len(q) >= 1

put_blocks(q) == queue_maxsize > 0 /\ Len(q) >= queue_maxsize

\* SSEConnection.send_event on the object of connection c: nothing once closed.
send_event(cs, c, event_type, task_id) ==
    IF cs[c].active
    THEN [cs EXCEPT ![c].queue = Append(@, [event |-> event_type, task |-> task_id])]
    ELSE cs

\* The send_event tasks broadcast_event creates, in the registry's (insertion)
\* order; the last one completes the gather.
RECURSIVE send_tasks(_, _, _)
send_tasks(cset, event_type, task_id) ==
    IF cset = {} THEN <<>>
    ELSE LET c == CHOOSE x \in cset : \A y \in cset : x <= y
         IN <<[kind |-> "send", event |-> event_type, task |-> task_id, conn |-> c,
               last |-> (cset = {c})]>> \o send_tasks(cset \ {c}, event_type, task_id)

\* A connection object that starts with an event published earlier on its queue.
SSEConnection_replaying(event_types) ==
    [subscriptions |-> event_types,
     queue |-> IF published = {} THEN <<>> ELSE <<CHOOSE e \in published : TRUE>>,
     active |-> TRUE]

\* SSEConnection.__init__ and the subscriptions create_connection adds: an empty
\* queue of its own, active.
SSEConnection(event_types) ==
    [subscriptions |-> event_types, queue |-> <<>>, active |-> TRUE]

\* GET /sse/connect: create_connection with the requested event types, and the
\* StreamingResponse over event_stream(connection_id), not yet started.
CreateConnection(event_types) ==
    /\ conn_uuid < MaxConnections
    /\ LET c == conn_uuid + 1
       IN /\ conn' = [conn EXCEPT ![c] = SSEConnection(event_types)]
          /\ connections' = connections \cup {c}
          /\ conn_uuid' = c
          /\ gen' = [gen EXCEPT ![c] = "created"]
          /\ last' = Call("create_connection", c, "none", "id", <<>>)
    /\ UNCHANGED <<tmvars, now, gwvars, mcpvars, event_callbacks, ready, stream, hbvars>>
    /\ UNCHANGED verdict
    /\ UNCHANGED task_lock
    /\ UNCHANGED cancelling
    /\ UNCHANGED cancelled
    /\ last_ping' = [last_ping EXCEPT ![conn_uuid + 1] = now]
    /\ UNCHANGED cleanup_due
    /\ UNCHANGED published
    /\ missed' = [missed EXCEPT ![conn_uuid + 1] = published]
    /\ UNCHANGED task_cleanup_due
    /\ UNCHANGED initialized
    /\ UNCHANGED non_compliant
    /\ UNCHANGED observers
    /\ called' = <<>>
    /\ active_connections' = active_connections + 1

\* event_stream up to its loop: the connection is looked up and the
\* connection_established event is put on its queue.
StreamStart(c) ==
    /\ gen[c] = "created"
    /\ IF c \notin connections
       THEN /\ gen' = [gen EXCEPT ![c] = "ended"]
            /\ conn' = conn
            /\ UNCHANGED hbvars
       ELSE /\ ~put_blocks(conn[c].queue)
            /\ gen' = [gen EXCEPT ![c] = "running"]
            /\ conn' = send_event(conn, c, "connection_established", 0)
            /\ last_heartbeat' = [last_heartbeat EXCEPT ![c] = now]
            /\ wait_start' = [wait_start EXCEPT ![c] = now]
            /\ last_yield' = [last_yield EXCEPT ![c] = now]
    /\ last' = Call("event_stream", c, "none", "none", <<>>)
    /\ UNCHANGED <<tmvars, now, gwvars, mcpvars, event_callbacks, ready, connections, conn_uuid, stream>>
    /\ UNCHANGED verdict
    /\ UNCHANGED task_lock
    /\ UNCHANGED cancelling
    /\ UNCHANGED cancelled
    /\ UNCHANGED last_ping
    /\ UNCHANGED cleanup_due
    /\ UNCHANGED published
    /\ UNCHANGED missed
    /\ UNCHANGED task_cleanup_due
    /\ UNCHANGED initialized
    /\ UNCHANGED non_compliant
    /\ UNCHANGED observers
    /\ called' = <<>>
    /\ UNCHANGED active_connections

\* event_stream: queue.get() returns an event, which is formatted and yielded.
StreamYield(c) ==
    /\ gen[c] = "running"
    /\ conn[c].active
    /\ conn[c].queue # <<>>
    /\ stream' = [stream EXCEPT ![c] = Append(@, Head(conn[c].queue))]
    /\ conn' = [conn EXCEPT ![c].queue = Tail(@)]
    /\ wait_start' = [wait_start EXCEPT ![c] = now]
    /\ last_yield' = [last_yield EXCEPT ![c] = now]
    /\ last' = Call("yield", c, "none", "none", <<>>)
    /\ UNCHANGED <<tmvars, now, gwvars, mcpvars, event_callbacks, ready, connections, conn_uuid, gen,
                   last_heartbeat>>
    /\ UNCHANGED verdict
    /\ UNCHANGED task_lock
    /\ UNCHANGED cancelling
    /\ UNCHANGED cancelled
    /\ UNCHANGED last_ping
    /\ UNCHANGED cleanup_due
    /\ UNCHANGED published
    /\ UNCHANGED missed
    /\ UNCHANGED task_cleanup_due
    /\ UNCHANGED initialized
    /\ UNCHANGED non_compliant
    /\ UNCHANGED observers
    /\ called' = <<>>
    /\ UNCHANGED active_connections

\* heartbeat_interval = 30 and the timeout of wait_for(queue.get(), timeout=1.0),
\* in seconds.
heartbeat_interval == 30

poll_timeout == 1

heartbeat_due_one_later(current_time, last_hb) ==
    current_time - last_hb > heartbeat_interval + 1

\* The test of the TimeoutError branch.
heartbeat_due(current_time, last_hb) == current_time - last_hb > heartbeat_interval

\* event_stream: wait_for times out on an empty queue; a heartbeat is yielded if
\* more than heartbeat_interval has passed since last_heartbeat.
StreamTimeout(c) ==
    /\ gen[c] = "running"
    /\ conn[c].active
    /\ conn[c].queue = <<>>
    /\ now - wait_start[c] >= poll_timeout
    /\ IF heartbeat_due(now, last_heartbeat[c])
       THEN /\ stream' = [stream EXCEPT ![c] = Append(@, [event |-> "heartbeat", task |-> 0])]
            /\ last_heartbeat' = [last_heartbeat EXCEPT ![c] = now]
            /\ last_yield' = [last_yield EXCEPT ![c] = now]
       ELSE UNCHANGED <<stream, last_heartbeat, last_yield>>
    /\ wait_start' = [wait_start EXCEPT ![c] = now]
    /\ last' = Call("TimeoutError", c, "none", "none", <<>>)
    /\ UNCHANGED <<tmvars, now, gwvars, mcpvars, event_callbacks, ready, connections, conn, conn_uuid, gen>>
    /\ UNCHANGED verdict
    /\ UNCHANGED task_lock
    /\ UNCHANGED cancelling
    /\ UNCHANGED cancelled
    /\ UNCHANGED last_ping
    /\ UNCHANGED cleanup_due
    /\ UNCHANGED published
    /\ UNCHANGED missed
    /\ UNCHANGED task_cleanup_due
    /\ UNCHANGED initialized
    /\ UNCHANGED non_compliant
    /\ UNCHANGED observers
    /\ called' = <<>>
    /\ UNCHANGED active_connections

\* One second passes.  The event loop is idle: nothing is scheduled, every stream
\* has been started, every queued event has been yielded to its (reading) client
\* and every expired wait_for has been handled.
PollTick ==
    /\ now < MaxStreamClock
    /\ ready = <<>>
    /\ \A c \in ConnIds :
          /\ gen[c] # "created"
          /\ (gen[c] = "running" /\ conn[c].active)
                => (conn[c].queue = <<>> /\ now - wait_start[c] < poll_timeout)
    /\ now' = now + 1
    /\ last' = Call("tick", 0, "none", "none", <<>>)
    /\ UNCHANGED <<tmvars, gwvars, ssevars>>
    /\ UNCHANGED verdict
    /\ UNCHANGED task_lock
    /\ UNCHANGED cancelling
    /\ UNCHANGED cancelled
    /\ UNCHANGED last_ping
    /\ UNCHANGED cleanup_due
    /\ UNCHANGED published
    /\ UNCHANGED missed
    /\ UNCHANGED task_cleanup_due
    /\ UNCHANGED initialized
    /\ UNCHANGED non_compliant
    /\ UNCHANGED observers
    /\ called' = <<>>
    /\ UNCHANGED active_connections

\* _cleanup_task: the seconds between two sweeps, and the age of last_ping beyond
\* which a connection is closed.
cleanup_interval == 60

idle_timeout == 300

\* _cleanup_task: await asyncio.sleep(60).
CleanupSleep ==
    /\ ~cleanup_due
    /\ now + cleanup_interval <= MaxSweepClock
    /\ now' = now + cleanup_interval
    /\ cleanup_due' = TRUE
    /\ last' = Call("sleep", 0, "none", "none", <<>>)
    /\ UNCHANGED <<tmvars, gwvars, ssevars>>
    /\ UNCHANGED verdict
    /\ UNCHANGED task_lock
    /\ UNCHANGED cancelling
    /\ UNCHANGED cancelled
    /\ UNCHANGED last_ping
    /\ UNCHANGED published
    /\ UNCHANGED missed
    /\ UNCHANGED task_cleanup_due
    /\ UNCHANGED initialized
    /\ UNCHANGED non_compliant
    /\ UNCHANGED observers
    /\ called' = <<>>
    /\ UNCHANGED active_connections

\* close_connection on a connection that is in no registry any more.
closes_whatever(registered) == 1

\* close_connection: what it takes from event_stats["active_connections"],
\* which is one inside "if connection:" and nothing for an id it does not find.
closes(registered) == IF registered THEN 1 ELSE 0

\* The test of _cleanup_task on one connection.
timed_out(c, current_time) == current_time - last_ping[c] > idle_timeout

connections_to_remove(current_time) ==
    {c \in connections : timed_out(c, current_time) \/ ~conn[c].active}

\* _cleanup_task after its sleep: the connections to remove are collected under
\* connection_lock, then close_connection closes and unregisters each.
ConnectionSweep ==
    /\ cleanup_due
    /\ cleanup_due' = FALSE
    /\ LET closing == connections_to_remove(now)
       IN /\ conn' = [c \in ConnIds |-> IF c \in closing
                                         THEN [conn[c] EXCEPT !.active = FALSE]
                                         ELSE conn[c]]
          /\ connections' = connections \ closing
    /\ last' = Call("_cleanup_task", 0, "none", "none", <<>>)
    /\ UNCHANGED <<tmvars, now, gwvars, mcpvars, event_callbacks, ready, conn_uuid, stream, gen,
                   hbvars>>
    /\ UNCHANGED verdict
    /\ UNCHANGED task_lock
    /\ UNCHANGED cancelling
    /\ UNCHANGED cancelled
    /\ UNCHANGED last_ping
    /\ UNCHANGED published
    /\ UNCHANGED missed
    /\ UNCHANGED task_cleanup_due
    /\ UNCHANGED initialized
    /\ UNCHANGED non_compliant
    /\ UNCHANGED observers
    /\ called' = <<>>
    /\ active_connections' = active_connections - Cardinality(connections_to_remove(now)) * closes(TRUE)

\* _execute_command_async for a command the validator rejects: the awaited
\* send_security_alert broadcasts security_alert, then the validation_error reply.
SubmitInvalid ==
    /\ ready' = ready \o send_tasks({c \in connections : is_subscribed(c, "security_alert")},
                                    "security_alert", 0)
    /\ last' = Call("execute_command", 0, "none", "validation_error", <<>>)
    /\ UNCHANGED <<tmvars, now, gwvars, ssrest>>
    /\ verdict' = "invalid"
    /\ UNCHANGED task_lock
    /\ UNCHANGED cancelling
    /\ UNCHANGED cancelled
    /\ UNCHANGED last_ping
    /\ UNCHANGED cleanup_due
    /\ published' = published \cup {[event |-> "security_alert", task |-> 0]}
    /\ UNCHANGED missed
    /\ UNCHANGED task_cleanup_due
    /\ UNCHANGED initialized
    /\ UNCHANGED non_compliant
    /\ UNCHANGED observers
    /\ called' = <<>>
    /\ UNCHANGED active_connections

\* broadcast_event(event_type, data, target_connections) with a non-empty target
\* list: the targets that are registered are the recipients, whatever they are
\* subscribed to, and one send_event task is created for each.
BroadcastTargeted(event_type, targets) ==
    /\ targets # {}
    /\ ready' = ready \o send_tasks(IF connections = {} THEN {} ELSE targets \cap connections,
                                    event_type, 0)
    /\ published' = published \cup {[event |-> event_type, task |-> 0]}
    /\ last' = Call("broadcast_event", 0, event_type, "targets", <<>>)
    /\ UNCHANGED <<tmvars, now, gwvars, ssrest>>
    /\ UNCHANGED <<verdict, task_lock, cancelling, cancelled, last_ping, cleanup_due, missed,
                   task_cleanup_due, initialized, non_compliant>>
    /\ UNCHANGED observers
    /\ called' = <<>>
    /\ UNCHANGED active_connections

\* event_stream ends (the client went away, or the connection is no longer
\* active): its finally runs close_connection.
StreamEnd(c) ==
    /\ gen[c] = "running"
    /\ gen' = [gen EXCEPT ![c] = "ended"]
    /\ IF c \in connections
       THEN /\ conn' = [conn EXCEPT ![c].active = FALSE]
            /\ connections' = connections \ {c}
       ELSE UNCHANGED <<conn, connections>>
    /\ last' = Call("close_connection", c, "none", "none", <<>>)
    /\ UNCHANGED <<tmvars, now, gwvars, mcpvars, event_callbacks, ready, conn_uuid, stream, hbvars>>
    /\ UNCHANGED verdict
    /\ UNCHANGED task_lock
    /\ UNCHANGED cancelling
    /\ UNCHANGED cancelled
    /\ UNCHANGED last_ping
    /\ UNCHANGED cleanup_due
    /\ UNCHANGED published
    /\ UNCHANGED missed
    /\ UNCHANGED task_cleanup_due
    /\ UNCHANGED initialized
    /\ UNCHANGED non_compliant
    /\ UNCHANGED observers
    /\ called' = <<>>
    /\ active_connections' = active_connections - closes(c \in connections)

\* event_stream called again for the id of a stream that has ended: the lookup
\* finds no connection and the generator returns without a yield; a connection
\* still registered would get a new connection_established and a new loop.
StreamRestart(c) ==
    /\ gen[c] = "ended"
    /\ IF c \notin connections
       THEN /\ UNCHANGED <<gen, conn, hbvars>>
       ELSE /\ ~put_blocks(conn[c].queue)
            /\ gen' = [gen EXCEPT ![c] = "running"]
            /\ conn' = send_event(conn, c, "connection_established", 0)
            /\ last_heartbeat' = [last_heartbeat EXCEPT ![c] = now]
            /\ wait_start' = [wait_start EXCEPT ![c] = now]
            /\ last_yield' = [last_yield EXCEPT ![c] = now]
    /\ last' = Call("event_stream", c, "again", "none", <<>>)
    /\ UNCHANGED <<tmvars, now, gwvars, mcpvars, event_callbacks, ready, connections, conn_uuid, stream>>
    /\ UNCHANGED verdict
    /\ UNCHANGED task_lock
    /\ UNCHANGED cancelling
    /\ UNCHANGED cancelled
    /\ UNCHANGED last_ping
    /\ UNCHANGED cleanup_due
    /\ UNCHANGED published
    /\ UNCHANGED missed
    /\ UNCHANGED task_cleanup_due
    /\ UNCHANGED initialized
    /\ UNCHANGED non_compliant
    /\ UNCHANGED observers
    /\ called' = <<>>
    /\ UNCHANGED active_connections

\* The event loop runs the coroutine at the head of its FIFO: a broadcast_event
\* call up to its gather, one send_event task, or a broadcast_event call resumed
\* by its gather.
RunReady ==
    /\ ready # <<>>
    /\ LET item == Head(ready)
           to_send == {c \in connections : is_subscribed(c, item.event)}
       IN /\ item.kind = "send" /\ conn[item.conn].active => ~put_blocks(conn[item.conn].queue)
          /\ ready' =
                IF item.kind = "broadcast"
                THEN Tail(ready) \o send_tasks(to_send, item.event, item.task)
                ELSE IF item.kind = "send" /\ item.last
                THEN Tail(ready) \o <<[kind |-> "gathered", event |-> item.event,
                                       task |-> item.task, conn |-> 0, last |-> FALSE]>>
                ELSE Tail(ready)
          /\ conn' = IF item.kind = "send"
                     THEN send_event(conn, item.conn, item.event, item.task)
                     ELSE conn
          /\ last' = Call(item.kind, item.task, item.event, ToString(item.conn), <<>>)
    /\ UNCHANGED <<tmvars, now, gwvars, mcpvars, event_callbacks, connections, conn_uuid, stream, gen,
                   hbvars>>
    /\ UNCHANGED verdict
    /\ UNCHANGED task_lock
    /\ UNCHANGED cancelling
    /\ UNCHANGED cancelled
    /\ UNCHANGED last_ping
    /\ UNCHANGED cleanup_due
    /\ published' = IF Head(ready).kind = "broadcast"
                    THEN published \cup {[event |-> Head(ready).event, task |-> Head(ready).task]}
                    ELSE published
    /\ UNCHANGED missed
    /\ UNCHANGED task_cleanup_due
    /\ UNCHANGED initialized
    /\ UNCHANGED non_compliant
    /\ UNCHANGED observers
    /\ called' = <<>>
    /\ UNCHANGED active_connections

\* ------------------------------------------------------------------- MCP transports
\* The message reaches _handle_initialize: a parsed request whose method is
\* initialize.  Over POST the handler sets initialized on the temporary
\* connection of that one request, which the next request does not see; the
\* stdio server keeps no such field, and no handler reads one or marks a request.
answers_initialize(m) ==
    /\ m.body = "object"
    /\ parse_message(m)
    /\ m.id # Absent
    /\ m.method = "initialize"

\* POST /mcp/sse (mcp_sse_message): an empty body, a body json.loads rejects, or
\* handle_direct_message on a temporary MCPSSEConnection; the route returns the
\* response, or an empty result if the response is falsy.  For a body that is
\* not an object, message_data.get raises in every handler on the way out and
\* the route's own handler answers.
PostMessage(m, valid) ==
    /\ received' = [transport |-> "post", message |-> m]
    /\ LET h == IF m.body = "empty" THEN Handled(EmptyBodyReply, <<>>, <<>>)
                ELSE IF m.body \in {"garbage", "array"}
                THEN Handled(create_error_response(Null, INTERNAL_ERROR), <<>>, <<>>)
                ELSE LET response == sse_handle_message(m, valid)
                     IN IF response.reply.sent THEN response
                        ELSE Handled(Result(get_id(m)), response.validated, response.executed)
       IN /\ reply' = h.reply
          /\ validated' = h.validated
          /\ executed' = h.executed
          /\ verdict' = validator_verdict(h, valid)
    /\ last' = Call("mcp_sse_message", 0, m.method, "none", <<>>)
    /\ UNCHANGED <<stdio_running, tmvars, now, gwvars, event_callbacks, ready, connections, conn, conn_uuid,
                   stream, gen, hbvars>>
    /\ UNCHANGED task_lock
    /\ UNCHANGED cancelling
    /\ UNCHANGED cancelled
    /\ UNCHANGED last_ping
    /\ UNCHANGED cleanup_due
    /\ UNCHANGED published
    /\ UNCHANGED missed
    /\ UNCHANGED task_cleanup_due
    /\ UNCHANGED initialized
    /\ non_compliant' = FALSE
    /\ UNCHANGED observers
    /\ called' = <<>>
    /\ UNCHANGED active_connections

\* One line of MCPStdioServer.run: a blank line is skipped, a line json.loads
\* rejects is answered with ParseError, any other goes to handle_message and the
\* response, if there is one, is printed.  For a line that is JSON but not an
\* object, message_data.get raises AttributeError in handle_message, again in
\* its handler and again in the loop's handler: nothing is printed and run
\* leaves its loop.
StdioLine(m, valid) ==
    /\ stdio_running
    /\ received' = [transport |-> "stdio", message |-> m]
    /\ LET h == IF m.body \in {"empty", "array"} THEN Handled(NoReply, <<>>, <<>>)
                ELSE IF m.body = "garbage"
                THEN Handled(create_error_response(Null, PARSE_ERROR), <<>>, <<>>)
                ELSE stdio_handle_message(m, valid)
       IN /\ reply' = h.reply
          /\ validated' = h.validated
          /\ executed' = h.executed
          /\ verdict' = validator_verdict(h, valid)
    /\ stdio_running' = (m.body # "array")
    /\ last' = Call("stdio", 0, m.method, "none", <<>>)
    /\ UNCHANGED <<tmvars, now, gwvars, event_callbacks, ready, connections, conn, conn_uuid,
                   stream, gen, hbvars>>
    /\ UNCHANGED task_lock
    /\ UNCHANGED cancelling
    /\ UNCHANGED cancelled
    /\ UNCHANGED last_ping
    /\ UNCHANGED cleanup_due
    /\ UNCHANGED published
    /\ UNCHANGED missed
    /\ UNCHANGED task_cleanup_due
    /\ initialized' = [initialized EXCEPT !["stdio"] = @ \/ answers_initialize(m)]
    /\ non_compliant' = FALSE
    /\ UNCHANGED observers
    /\ called' = <<>>
    /\ UNCHANGED active_connections

GatewayIds == 1..MaxGatewayTasks

Next ==
    \/ Tick
    \/ RunReady
    \/ SubmitRejected
    \/ SubmitAsync(NORMAL)
    \/ SubmitSync(NORMAL)
    \/ \E t \in GatewayIds : ExecuteTaskStart(t)
    \/ \E t \in GatewayIds : CancelTask(t)
    \/ \E t \in GatewayIds : ExecuteBegin(t)
    \/ \E t \in GatewayIds : Spawn(t)
    \/ \E t \in GatewayIds : SpawnFail(t)
    \/ \E t \in GatewayIds : Fork(t)
    \/ \E t \in GatewayIds : DescendantExit(t)
    \/ \E t \in GatewayIds : ChildExit(t)
    \/ \E t \in GatewayIds, o \in {"ok", "nonzero"} : CommunicateReturn(t, o)
    \/ \E t \in GatewayIds : TimeoutExpired(t)
    \/ \E t \in GatewayIds : TerminateProcess(t)
    \/ \E t \in GatewayIds : TerminateWaitReturn(t)
    \/ \E t \in GatewayIds : TerminateKill(t)
    \/ \E t \in GatewayIds : ExecuteTaskFinish(t)

\* The server: the gateway's execute and cancel routes over the Task Manager and
\* the Process Executor.
Spec == ServerInit /\ [][Next]_vars

SyncNext ==
    \/ Tick
    \/ RunReady
    \/ SubmitRejected
    \/ SubmitSync(NORMAL)
    \/ \E t \in GatewayIds : CancelTask(t)
    \/ \E t \in GatewayIds : ExecuteBegin(t)
    \/ \E t \in GatewayIds : Spawn(t)
    \/ \E t \in GatewayIds : SpawnFail(t)
    \/ \E t \in GatewayIds : Fork(t)
    \/ \E t \in GatewayIds : DescendantExit(t)
    \/ \E t \in GatewayIds : ChildExit(t)
    \/ \E t \in GatewayIds, o \in {"ok", "nonzero"} : CommunicateReturn(t, o)
    \/ \E t \in GatewayIds : TimeoutExpired(t)
    \/ \E t \in GatewayIds : TerminateProcess(t)
    \/ \E t \in GatewayIds : TerminateWaitReturn(t)
    \/ \E t \in GatewayIds : TerminateKill(t)
    \/ \E t \in GatewayIds : ExecuteTaskFinish(t)

\* The server when every execute request is synchronous (options.async defaults
\* to false): no task is ever left Pending between two steps.
SyncSpec == ServerInit /\ [][SyncNext]_vars

SseTaskIds == 1..MaxSseTasks

SseNext ==
    \/ RunReady
    \/ \E e \in {{"*"}, {"task_failed"}} : CreateConnection(e)
    \/ \E c \in ConnIds : StreamStart(c)
    \/ \E c \in ConnIds : StreamYield(c)
    \/ \E c \in ConnIds : StreamEnd(c)
    \/ (uuid < MaxSseTasks /\ SubmitSync(NORMAL))
    \/ \E t \in SseTaskIds : CancelTask(t)
    \/ \E t \in SseTaskIds : ExecuteBegin(t)
    \/ \E t \in SseTaskIds : Spawn(t)
    \/ \E t \in SseTaskIds : ChildExit(t)
    \/ \E t \in SseTaskIds, o \in {"ok", "nonzero"} : CommunicateReturn(t, o)
    \/ \E t \in SseTaskIds : ExecuteTaskFinish(t)

\* The server with event-stream connections: synchronous submissions whose
\* lifecycle events are broadcast to the connections.
SseSpec == ServerInit /\ [][SseNext]_vars

HeartbeatNext ==
    \/ PollTick
    \/ RunReady
    \/ (conn_uuid < MaxHeartbeatConnections /\ CreateConnection({"*"}))
    \/ \E c \in ConnIds : StreamStart(c)
    \/ \E c \in ConnIds : StreamYield(c)
    \/ \E c \in ConnIds : StreamTimeout(c)
    \/ (/\ ready = <<>>
        /\ \A c \in ConnIds : Len(stream[c]) + Len(conn[c].queue) < MaxStreamLen
        /\ SubmitInvalid)

\* Event streams over time, with clients that keep reading: connections, security
\* alerts as the published events, and the clock in seconds.
HeartbeatSpec == ServerInit /\ [][HeartbeatNext]_vars

ApiNext ==
    \/ CreateTask(NORMAL, MaxApiTasks)
    \/ \E t \in 1..MaxApiTasks, s \in TaskStatus : UpdateTaskStatus(t, s)
    \/ \E t \in 1..MaxApiTasks : CancelTask(t)
    \/ GetNextTask
    \/ \E t \in 1..MaxApiTasks : MarkTaskRunning(t)

\* The Task Manager under arbitrary callers of its public operations.
ApiSpec == Init /\ [][ApiNext]_vars

\* The event types the modelled callers register observers for; the last one
\* is not a key of event_callbacks.
ObservedInputs == {"task_started", "task_completed", "task_paused"}

ObserverNext ==
    \/ CreateTask(NORMAL, MaxApiTasks)
    \/ \E t \in 1..MaxApiTasks, s \in TaskStatus : UpdateTaskStatus(t, s)
    \/ \E e \in ObservedInputs, b \in ObserverBehaviours :
          /\ \A x \in EventTypes : Len(observers[x]) < MaxObservers
          /\ AddEventCallback(e, b)

\* The Task Manager with callers that register observers, some of which raise,
\* and callers that update the status of its tasks.
ObserverSpec == Init /\ [][ObserverNext]_vars

QueueNext ==
    \/ \E p \in PriorityInputs : CreateTask(p, MaxTasks)
    \/ \E t \in TaskIds : CancelTask(t)
    \/ GetNextTask

\* The pending queue under the three operations that write it.
QueueSpec == Init /\ [][QueueNext]_vars

MessageNext ==
    \/ \E m \in MessageInputs : \E valid \in BOOLEAN : PostMessage(m, valid)
    \/ \E m \in MessageInputs : \E valid \in BOOLEAN : StdioLine(m, valid)

MessageSpec == ServerInit /\ [][MessageNext]_vars

\* The execute_command entry paths side by side: tools/call on POST /mcp/sse and
\* on stdio, and POST /api/v1/execute with the run of the task it creates.
ToolCallInputs ==
    {m \in MessageInputs : /\ m.body = "object" /\ m.jsonrpc /\ ~m.result /\ ~m.error
                           /\ m.id \in MessageIds /\ m.method = "tools/call"}

GateTaskIds == 1..MaxGateTasks

GateNext ==
    \/ \E m \in ToolCallInputs : \E valid \in BOOLEAN : PostMessage(m, valid)
    \/ \E m \in ToolCallInputs : \E valid \in BOOLEAN : StdioLine(m, valid)
    \/ SubmitInvalid
    \/ SubmitRejected
    \/ (uuid < MaxGateTasks /\ SubmitAsync(NORMAL))
    \/ (uuid < MaxGateTasks /\ SubmitSync(NORMAL))
    \/ RunReady
    \/ \E t \in GateTaskIds :
          \/ ExecuteTaskStart(t)
          \/ ExecuteBegin(t)
          \/ Spawn(t)
          \/ SpawnFail(t)
          \/ ChildExit(t)
          \/ \E outcome \in {"ok", "nonzero"} : CommunicateReturn(t, outcome)
          \/ ExecuteTaskFinish(t)
          \/ CancelTask(t)

GateSpec == ServerInit /\ [][GateNext]_vars

\* The gateway's execute_command with every executor step, under the scheduling
\* the runtime gives: the event loop runs every ready coroutine, the thread pool
\* runs every worker, communicate(timeout) and wait(timeout=5) end after a finite
\* time whether or not the child exits.
LiveTaskIds == 1..MaxLiveTasks

LiveNext ==
    \/ SubmitRejected
    \/ (uuid < MaxLiveTasks /\ \E priority \in PriorityInputs : SubmitAsync(priority))
    \/ (uuid < MaxLiveTasks /\ \E priority \in PriorityInputs : SubmitSync(priority))
    \/ RunReady
    \/ \E t \in LiveTaskIds :
          \/ ExecuteTaskStart(t)
          \/ ExecuteBegin(t)
          \/ Spawn(t)
          \/ SpawnFail(t)
          \/ Fork(t)
          \/ DescendantExit(t)
          \/ ChildExit(t)
          \/ \E outcome \in {"ok", "nonzero"} : CommunicateReturn(t, outcome)
          \/ TimeoutExpired(t)
          \/ TerminateProcess(t)
          \/ TerminateWaitReturn(t)
          \/ TerminateKill(t)
          \/ ExecuteTaskFinish(t)
          \/ CancelTask(t)

LiveFairness ==
    \A t \in LiveTaskIds :
        /\ WF_vars(ExecuteTaskStart(t))
        /\ WF_vars(ExecuteBegin(t))
        /\ WF_vars(Spawn(t) \/ SpawnFail(t))
        /\ WF_vars(ChildExit(t) \/ TimeoutExpired(t))
        /\ WF_vars(\E outcome \in {"ok", "nonzero"} : CommunicateReturn(t, outcome))
        /\ WF_vars(TerminateProcess(t))
        /\ WF_vars(TerminateWaitReturn(t) \/ TerminateKill(t))
        /\ WF_vars(ExecuteTaskFinish(t))

LiveSpec == ServerInit /\ [][LiveNext]_vars /\ LiveFairness

\* The same server, where the event loop also runs every coroutine a callback
\* scheduled with asyncio.create_task.
NotifySpec == ServerInit /\ [][LiveNext]_vars /\ LiveFairness /\ WF_vars(RunReady)

\* CommandExecutor.cancel_task called by another thread while execute runs. Every
\* step of the code is fair; the child's own exit and the expiry of the command's
\* timeout are not: the child may ignore SIGTERM and the timeout may be far away.
\* A task is cancelled until one call has signalled its process.
CancelTaskIds == 1..MaxCancelTasks

ForceInputs == {"graceful", "force"}

CancelNext ==
    \/ (uuid < MaxCancelTasks /\ SubmitAsync(NORMAL))
    \/ (uuid < MaxCancelTasks /\ SubmitSync(NORMAL))
    \/ RunReady
    \/ ExecutorCancelSignal
    \/ \E t \in CancelTaskIds :
          \/ ExecuteTaskStart(t)
          \/ ExecuteBegin(t)
          \/ Spawn(t)
          \/ SpawnFail(t)
          \/ ChildExit(t)
          \/ \E outcome \in {"ok", "nonzero"} : CommunicateReturn(t, outcome)
          \/ TimeoutExpired(t)
          \/ TerminateProcess(t)
          \/ TerminateWaitReturn(t)
          \/ TerminateKill(t)
          \/ ExecuteTaskFinish(t)
          \/ (~cancelled[t] /\ \E force \in ForceInputs : ExecutorCancel(t, force))

CancelFairness ==
    /\ WF_vars(ExecutorCancelSignal)
    /\ \A t \in CancelTaskIds :
        /\ WF_vars(ExecuteTaskStart(t))
        /\ WF_vars(ExecuteBegin(t))
        /\ WF_vars(Spawn(t) \/ SpawnFail(t))
        /\ WF_vars(\E outcome \in {"ok", "nonzero"} : CommunicateReturn(t, outcome))
        /\ WF_vars(TerminateProcess(t))
        /\ WF_vars(TerminateWaitReturn(t) \/ TerminateKill(t))
        /\ WF_vars(ExecuteTaskFinish(t))

CancelSpec == ServerInit /\ [][CancelNext]_vars /\ CancelFairness

ReplayNext ==
    \/ SseNext
    \/ \E c \in ConnIds : StreamRestart(c)

\* The broadcast server with callers that ask again for the stream of a
\* connection whose stream has ended.
ReplaySpec == ServerInit /\ [][ReplayNext]_vars

\* Every id in the pending queue is a key of the registry.
queue_ids_registered == \A i \in 1..Len(pending_queue) : pending_queue[i] \in DOMAIN tasks

TaskSweepNext ==
    \/ TaskCleanupSleep
    \/ TaskSweep
    \/ (queue_ids_registered /\ CreateTask(NORMAL, MaxTaskSweepTasks))
    \/ GetNextTask
    \/ \E t \in 1..MaxTaskSweepTasks : MarkTaskRunning(t)
    \/ \E t \in 1..MaxTaskSweepTasks : UpdateTaskStatus(t, COMPLETED)

\* The Task Manager under callers of its public operations and its hourly sweep;
\* create_task is called while the queue holds registered ids only.
TaskSweepSpec == Init /\ [][TaskSweepNext]_vars

\* No broadcast is under way and no connection has been handed MaxTargetLen events.
RegistryNext ==
    \/ TaskCleanupSleep
    \/ TaskSweep
    \/ (~raises_key_error(tasks, pending_queue, NORMAL) /\ CreateTask(NORMAL, MaxRegistryTasks))
    \/ CreateTaskKeyError(NORMAL, MaxRegistryTasks)
    \/ GetNextTask
    \/ \E t \in 1..MaxRegistryTasks : UpdateTaskStatus(t, COMPLETED)

\* The registry and the pending queue under create_task, update_task_status,
\* get_next_task and the hourly sweep.
RegistrySpec == Init /\ [][RegistryNext]_vars

TargetRoom ==
    /\ ready = <<>>
    /\ \A c \in ConnIds : Len(stream[c]) + Len(conn[c].queue) < MaxTargetLen

TargetNext ==
    \/ RunReady
    \/ \E e \in {{"*"}, {"task_failed"}} : CreateConnection(e)
    \/ \E c \in ConnIds : StreamStart(c)
    \/ \E c \in ConnIds : StreamYield(c)
    \/ \E c \in ConnIds : StreamEnd(c)
    \/ (TargetRoom /\ SubmitInvalid)
    \/ (TargetRoom /\ \E targets \in SUBSET ConnIds : BroadcastTargeted("security_alert", targets))

\* The Event Bus under callers of broadcast_event with and without a target list.
TargetSpec == ServerInit /\ [][TargetNext]_vars

SweepNext ==
    \/ CleanupSleep
    \/ ConnectionSweep
    \/ RunReady
    \/ (conn_uuid < MaxSweepConnections /\ CreateConnection({"*"}))
    \/ \E c \in ConnIds : StreamStart(c)
    \/ \E c \in ConnIds : StreamYield(c)
    \/ \E c \in ConnIds : StreamEnd(c)
    \/ (/\ ready = <<>>
        /\ \A c \in ConnIds : Len(stream[c]) + Len(conn[c].queue) < MaxStreamLen
        /\ SubmitInvalid)

\* Event streams under the periodic connection sweep: security alerts as the
\* published events, and the clock advancing by the sweep's sleep.
SweepSpec == ServerInit /\ [][SweepNext]_vars

\* ----------------------------------------------------------------- claims
\* The lifecycle graph and the terminal statuses, as the specification words them.
ValidTransitions ==
    {<<PENDING, RUNNING>>, <<RUNNING, COMPLETED>>, <<RUNNING, FAILED>>,
     <<RUNNING, TIMEOUT>>, <<PENDING, CANCELLED>>, <<RUNNING, CANCELLED>>}

TerminalStatuses == {COMPLETED, FAILED, CANCELLED, TIMEOUT}

\* C1: a task's status changes only along an edge of the lifecycle graph
\* (Pending->Running, Running->{Completed, Failed, TimedOut}, Pending->Cancelled,
\* Running->Cancelled); in particular a terminal status is never left.
C1_TransitionsFollowGraph ==
    [][\A t \in DOMAIN tasks :
          tasks'[t].status # tasks[t].status
              => <<tasks[t].status, tasks'[t].status>> \in ValidTransitions]_vars

\* C2: an update_task_status call whose transition is not an edge of the graph
\* (which covers every call on a terminal task) returns false, fires no event and
\* leaves the tasks and the statistics as they were.
C2_InvalidUpdateRejected ==
    [][\A t \in DOMAIN tasks :
          (/\ last'.op = "update_task_status"
           /\ last'.task = t
           /\ <<tasks[t].status, last'.arg>> \notin ValidTransitions)
              => (/\ last'.ret = "false"
                  /\ last'.fired = <<>>
                  /\ UNCHANGED <<tasks, stats>>)]_vars

\* C3: a task on which cancel_task succeeded while it was Pending stays Cancelled
\* and never gets a process.
C3_CancelledPendingNeverRuns ==
    \A t \in cancelled_pending :
        t \in DOMAIN tasks => (tasks[t].status = CANCELLED /\ child[t] = "none")

\* C4: when cancel_task has returned true for a task whose process is alive, a
\* termination signal has been sent to that process.
C4_CancelTerminatesProcess ==
    \A t \in GatewayIds :
        (last.op = "cancel_task" /\ last.task = t /\ last.ret = "true" /\ child[t] = "alive")
            => signals[t] # {}

\* C5: cancel_task on a task in a terminal status returns false, fires no event
\* and changes neither the tasks, the pending queue, the running map nor the
\* statistics.
C5_CancelTerminalNoOp ==
    [][\A t \in DOMAIN tasks :
          (/\ last'.op = "cancel_task"
           /\ last'.task = t
           /\ tasks[t].status \in TerminalStatuses)
              => (/\ last'.ret = "false"
                  /\ last'.fired = <<>>
                  /\ UNCHANGED <<tasks, pending_queue, running_tasks, stats>>)]_vars

\* A cancel_task call has just returned false on a TimedOut task that is still
\* in the pending queue and in the running map.
C5_Witness ==
    /\ last.op = "cancel_task"
    /\ last.ret = "false"
    /\ last.task \in DOMAIN tasks
    /\ tasks[last.task].status = TIMEOUT
    /\ InQueue(pending_queue, last.task)
    /\ last.task \in running_tasks

\* C6: a submission made while the number of Pending and Running tasks equals
\* max_concurrent_tasks gets the system_overload reply and leaves the tasks, the
\* pending queue and the statistics as they were.
C6_RejectsAtCapacity ==
    [][(last'.op = "execute_command" /\ ActiveCount = max_concurrent_tasks)
          => (/\ last'.ret = "system_overload"
              /\ UNCHANGED <<tasks, pending_queue, stats>>)]_vars

\* C7: can_accept_new_task is false exactly when the number of Pending and
\* Running tasks has reached max_concurrent_tasks.
C7_AdmissionCountsActive ==
    can_accept_new_task <=> ActiveCount < max_concurrent_tasks

\* The queue is in non-increasing priority order, older first among equals.
QueueOrdered(ts, q) ==
    \A i, j \in 1..Len(q) :
        i < j => \/ ts[q[i]].priority > ts[q[j]].priority
                 \/ (ts[q[i]].priority = ts[q[j]].priority /\ q[i] < q[j])

\* The oldest of the queued tasks of the highest priority present.
OldestOfHighest(ts, q) ==
    CHOOSE x \in {q[i] : i \in 1..Len(q)} :
        \A i \in 1..Len(q) :
            \/ ts[q[i]].priority < ts[x].priority
            \/ (ts[q[i]].priority = ts[x].priority /\ x <= q[i])

\* C8: the pending queue is always ordered by non-increasing priority, creation
\* order among equal priorities; get_next_task removes and returns the oldest task
\* of the highest priority present, and returns none on an empty queue.
C8_QueuePriorityFifo ==
    [][/\ QueueOrdered(tasks', pending_queue')
       /\ last'.op = "get_next_task" =>
             IF pending_queue = <<>>
             THEN last'.task = 0 /\ pending_queue' = <<>>
             ELSE /\ last'.task = OldestOfHighest(tasks, pending_queue)
                  /\ pending_queue' =
                        SelectSeq(pending_queue, LAMBDA x : x # last'.task)]_vars

\* get_next_task has just returned task 3, which was inserted ahead of the two
\* older tasks 1 and 2 of equal, lower priority.
C8_Witness ==
    /\ last.op = "get_next_task"
    /\ last.task = 3
    /\ pending_queue = <<1, 2>>
    /\ tasks[1].priority = tasks[2].priority
    /\ tasks[3].priority > tasks[1].priority

\* C9: completed_at is unset while the task is not terminal, set once it is
\* terminal, and never changes once set.
C9_CompletedAtSetOnce ==
    [][\A t \in DOMAIN tasks' :
          /\ tasks'[t].status \notin TerminalStatuses => tasks'[t].completed_at = 0
          /\ tasks'[t].status \in TerminalStatuses => tasks'[t].completed_at # 0
          /\ (t \in DOMAIN tasks /\ tasks[t].completed_at # 0)
                => tasks'[t].completed_at = tasks[t].completed_at]_vars

\* C10: once execute has returned the result of a timed-out run, nothing of the
\* command's process group is alive: neither the child nor a descendant.
C10_TimeoutKillsGroup ==
    \A t \in GatewayIds :
        exec_result[t] = "timeout" => (child[t] # "alive" /\ desc[t] # "alive")

\* The return_code field of execute's result: the child's exit code, and -1 both
\* on the timeout branch and from _create_error_result (return_code or -1).
return_code(outcome) ==
    IF outcome = "ok" THEN 0 ELSE IF outcome = "nonzero" THEN 1 ELSE 0 - 1

\* C11: a task whose run exceeded its timeout ends in status TimedOut, and the
\* executor's result for it carries return code -1.
C11_TimeoutReportedAsTimedOut ==
    \A t \in GatewayIds :
        (exec_result[t] = "timeout" /\ pc[t] = "done")
            => (tasks[t].status = TIMEOUT /\ return_code(exec_result[t]) = 0 - 1)

\* C12: publishing never waits on a subscriber.  Whatever the connections have
\* left unconsumed on their queues, the coroutine at the head of the event loop's
\* FIFO (a broadcast_event call or one of its send_event tasks) can run, and a
\* send_event that has just run on an active connection has put its event at the
\* tail of that connection's own queue.
C12_PublishNeverWaits ==
    /\ ready # <<>> => ENABLED RunReady
    /\ \A c \in ConnIds :
          (last.op = "send" /\ last.ret = ToString(c) /\ conn[c].active)
              => /\ conn[c].queue # <<>>
                 /\ conn[c].queue[Len(conn[c].queue)] = [event |-> last.arg, task |-> last.task]

\* Connection 1 never consumed anything and holds two undelivered events, every
\* broadcast has completed, and connection 2 has consumed the task's terminal event.
C12_Witness ==
    /\ stream[1] = <<>>
    /\ 1 \in connections
    /\ Len(conn[1].queue) >= 2
    /\ ready = <<>>
    /\ \E i \in 1..Len(stream[2]) : stream[2][i].event \in {"task_completed", "task_failed"}

\* The task_completed events for task t that connection c holds or was handed:
\* yielded on its stream, waiting on its queue, or about to be sent.
CompletedEvents(rd, cs, st, c, t) ==
    Cardinality({i \in 1..Len(st[c]) : st[c][i] = [event |-> "task_completed", task |-> t]})
    + Cardinality({i \in 1..Len(cs[c].queue) :
                      cs[c].queue[i] = [event |-> "task_completed", task |-> t]})
    + Cardinality({i \in 1..Len(rd) : /\ rd[i].kind = "send" /\ rd[i].conn = c
                                       /\ rd[i].event = "task_completed" /\ rd[i].task = t})

\* C14: when a task's status becomes Completed, a task_completed broadcast for it
\* is published for the connections registered with a wildcard subscription; that
\* broadcast hands each such connection one event carrying the task's id; and no
\* connection ever gets more than one task_completed event for the same task.
C14_CompletedReachesWildcards ==
    [][\A t \in DOMAIN tasks : \A c \in ConnIds :
          /\ (/\ tasks'[t].status = COMPLETED /\ tasks[t].status # COMPLETED
              /\ c \in connections /\ "*" \in conn[c].subscriptions)
                 => /\ ready' # <<>>
                    /\ \E i \in 1..Len(ready') :
                          /\ ready'[i].kind = "broadcast"
                          /\ ready'[i].event = "task_completed"
                          /\ ready'[i].task = t
          /\ (/\ last'.op = "broadcast" /\ last'.arg = "task_completed" /\ last'.task = t
              /\ c \in connections /\ "*" \in conn[c].subscriptions)
                 => CompletedEvents(ready', conn', stream', c, t) = 1
          /\ CompletedEvents(ready', conn', stream', c, t) <= 1]_vars

\* The events of a call, as a set.
Fired(call) == {call.fired[i] : i \in 1..Len(call.fired)}

TerminalEvents == {"task_completed", "task_failed", "task_cancelled"}

Request == received.message

\* A request envelope as the protocol defines it: a JSON object with the version
\* tag and a method, and neither a result nor an error.
WellFormedRequest(m) ==
    m.body = "object" /\ m.jsonrpc /\ m.method # Absent /\ ~m.result /\ ~m.error

\* A JSON-RPC error reply carrying the given code.
ErrorReply(r, code) ==
    r.sent /\ r.jsonrpc /\ r.has_error /\ ~r.has_result /\ r.code = code

\* C16: a message that is a JSON object with no method, and with neither a result
\* nor an error (so not a response), is answered with an error reply whose code
\* is InvalidRequest (-32600).
C16_MissingMethodInvalidRequest ==
    (/\ received.transport # "none"
     /\ Request.body = "object"
     /\ Request.method = Absent
     /\ ~Request.result /\ ~Request.error)
        => ErrorReply(reply, INVALID_REQUEST)

\* C17: a well-formed request with an id whose method is none of initialize,
\* tools/list, tools/call, resources/list, prompts/list is answered, on either
\* transport, with an error reply whose code is MethodNotFound (-32601) and whose
\* id is the request's id.
C17_UnknownMethodNotFound ==
    (/\ received.transport # "none"
     /\ WellFormedRequest(Request)
     /\ Request.id \in MessageIds
     /\ Request.method \notin KnownMethods)
        => (ErrorReply(reply, METHOD_NOT_FOUND) /\ reply.id = Request.id)

C17_Witness ==
    /\ received.transport = "stdio"
    /\ WellFormedRequest(Request)
    /\ Request.id = "1"
    /\ Request.method = "tasks/list"
    /\ reply.code = METHOD_NOT_FOUND
    /\ reply.id = "1"

\* C18: a well-formed tools/call request for execute_command whose arguments
\* have no command is answered with an error reply whose code is InvalidParams
\* (-32602), and its handling passes no command to the validator or the executor.
C18_MissingCommandInvalidParams ==
    (/\ received.transport # "none"
     /\ WellFormedRequest(Request)
     /\ Request.id \in MessageIds
     /\ Request.method = "tools/call"
     /\ Request.tool = "execute_command"
     /\ Request.command = Absent)
        => (ErrorReply(reply, INVALID_PARAMS) /\ validated = <<>> /\ executed = <<>>)

\* C19: a message that carries a method but no id is a notification, and no
\* reply of any kind is sent for it, on either transport.
C19_NotificationNeverAnswered ==
    (/\ received.transport # "none"
     /\ Request.body = "object"
     /\ Request.method # Absent
     /\ Request.id = Absent)
        => ~reply.sent

\* What arrived cannot be parsed into an envelope: it is not JSON, it is JSON but
\* not an object, or it is the empty body of a POST.
Unparseable ==
    \/ Request.body \in {"garbage", "array"}
    \/ received.transport = "post" /\ Request.body = "empty"

\* C20: every reply to a request that carried an id has that id and exactly one
\* of result and error; and what cannot be parsed is answered with a JSON-RPC
\* error reply whose id is null.
C20_RepliesEchoIdOrNull ==
    /\ (/\ received.transport # "none"
        /\ Request.body = "object"
        /\ Request.method # Absent
        /\ Request.id \in MessageIds
        /\ reply.sent)
           => (reply.id = Request.id /\ reply.has_result # reply.has_error)
    /\ (received.transport # "none" /\ Unparseable)
           => (/\ reply.sent /\ reply.jsonrpc
               /\ reply.has_error /\ ~reply.has_result
               /\ reply.id = Null)

\* The steps that handle one execute request.
RequestOps == {"execute_command", "mcp_sse_message", "stdio"}

\* C21: on every entry path the validator is a gate: a step that creates a task
\* or hands a command to CommandExecutor.execute handles a request for which
\* validate_command reported valid, and a step that handles a request for which
\* it reported invalid creates no task, registers no execution context and
\* executes nothing.
C21_ValidatorGate ==
    [][/\ DOMAIN tasks' # DOMAIN tasks => verdict' = "valid"
       /\ (last'.op \in {"mcp_sse_message", "stdio"} /\ executed' # <<>>) => verdict' = "valid"
       /\ (last'.op \in RequestOps /\ verdict' = "invalid")
            => (/\ tasks' = tasks /\ pc' = pc /\ active_contexts' = active_contexts
                /\ (last'.op # "execute_command" => executed' = <<>>))]_vars

C21_Witness ==
    /\ received.transport = "stdio"
    /\ Request.tool = "execute_command"
    /\ Request.command = "rm"
    /\ verdict = "invalid"
    /\ validated = <<"rm">>
    /\ executed = <<>>
    /\ reply.has_result
    /\ last.op = "execute_command"
    /\ last.ret = "validation_error"
    /\ tasks = <<>>

\* C22: a step that handles a tools/call and hands a command to
\* CommandExecutor.execute was admitted by can_accept_new_task and registers a
\* task for that command in the Task Manager.
C22_ToolCallRunsAsTask ==
    [][(last'.op \in {"mcp_sse_message", "stdio"} /\ executed' # <<>>)
          => (can_accept_new_task /\ DOMAIN tasks' # DOMAIN tasks)]_vars

\* C23: process execution is always offloaded: no step of the control-plane loop
\* that handles a message contains a call of CommandExecutor.execute, so that
\* the loop is free to take its next step while a command runs.
C23_ExecutionOffloaded ==
    [][last'.op \in {"mcp_sse_message", "stdio"} => executed' = <<>>]_vars

\* Where a task is while CommandExecutor.execute runs for it, from the hand-over
\* to the worker thread to the return of the result.
InExecutor == {"to_thread", "registered", "communicate", "timed_out", "terminate_wait"}

Dispatched == {"scheduled", "to_thread"}

C27_CancelOfExitedProcessSucceeds ==
    [][\A t \in CancelTaskIds :
          (/\ last'.op = "executor.cancel_task"
           /\ last'.task = t
           /\ child'[t] = "dead")
          => last'.ret = "true"]_vars

\* Idle for longer than the idle timeout, counted from the later of the
\* connection's last ping and the last event its stream delivered.
timed_out_since_activity(c, current_time) ==
    current_time - (IF last_yield[c] > last_ping[c] THEN last_yield[c] ELSE last_ping[c])
        > idle_timeout

\* C28: the connection sweep closes and removes a connection if and only if it
\* is inactive or has been idle for longer than the idle timeout, idleness being
\* measured from its last activity, events delivered to it included.
C28_SweepClosesIffIdle ==
    [][last'.op = "_cleanup_task"
          => \A c \in connections :
                (c \notin connections' /\ ~conn'[c].active)
                    <=> (timed_out_since_activity(c, now) \/ ~conn[c].active)]_vars

Delivered(c) == {stream[c][i] : i \in 1..Len(stream[c])}

\* C29: a new connection never replays history: no event published before a
\* connection was opened is delivered on its stream or waits on its queue, and
\* a stream that has ended stays ended and delivers nothing more, also when
\* event_stream is called again for its connection id.
C29_NoReplayNoRestart ==
    /\ [](\A c \in ConnIds :
            /\ Delivered(c) \cap missed[c] = {}
            /\ \A i \in 1..Len(conn[c].queue) : conn[c].queue[i] \notin missed[c])
    /\ [][\A c \in ConnIds :
            gen[c] = "ended" => (gen'[c] = "ended" /\ stream'[c] = stream[c])]_vars

C29_Witness ==
    /\ connections = {2}
    /\ gen[1] = "ended"
    /\ last.op = "event_stream"
    /\ last.arg = "again"
    /\ last.task = 1
    /\ missed[2] # {}
    /\ Len(stream[2]) >= 2
    /\ Delivered(1) \cap missed[2] # {}

\* C30: the task sweep removes only tasks that are in a terminal status and
\* completed longer ago than the retention window; a Pending or Running task is
\* never removed, nothing else removes a task, and the sweep leaves the pending
\* queue, the running map and every remaining task as they were.
C30_SweepRemovesOnlyOldTerminal ==
    [][/\ \A t \in DOMAIN tasks :
            t \notin DOMAIN tasks'
                => /\ last'.op = "_cleanup_task"
                   /\ tasks[t].status \in TerminalStatuses
                   /\ tasks[t].completed_at # 0
                   /\ now - tasks[t].completed_at > max_age
       /\ last'.op = "_cleanup_task"
            => /\ \A t \in DOMAIN tasks : is_active(tasks[t].status) => t \in DOMAIN tasks'
               /\ \A t \in DOMAIN tasks' : t \in DOMAIN tasks /\ tasks'[t] = tasks[t]
               /\ pending_queue' = pending_queue
               /\ running_tasks' = running_tasks]_vars

C30_Witness ==
    /\ last.op = "_cleanup_task"
    /\ uuid = 1
    /\ 1 \notin DOMAIN tasks
    /\ now > max_age
    /\ stats.completed_tasks = 1
    /\ pending_queue = <<1>>

\* C31: a request other than initialize that arrives before the initialize
\* handshake has completed on its connection is answered as after the handshake
\* and is marked as non-compliant.
C31_EarlyRequestFlagged ==
    [][(/\ last'.op \in {"mcp_sse_message", "stdio"}
        /\ WellFormedRequest(received'.message)
        /\ received'.message.id \in MessageIds
        /\ received'.message.method \in KnownMethods \ {"initialize"}
        /\ ~initialized[received'.transport])
          => (reply'.sent /\ non_compliant')]_vars

\* C32: in asynchronous mode the reply with the task id is returned while the
\* task is still waiting to run, and for every such task a terminal notification
\* carrying its id is later published on the Event Bus, whichever terminal status
\* the task ends in.
C32_AsyncTaskNotified ==
    /\ [][(last'.op = "execute_command" /\ last'.ret = "started")
             => (/\ pc'[last'.task] = "scheduled"
                 /\ tasks'[last'.task].status = PENDING)]_vars
    /\ \A t \in LiveTaskIds :
          (pc[t] = "scheduled")
              ~> (\E e \in TerminalEvents : [event |-> e, task |-> t] \in published)

\* C33: broadcast_event puts an event only on the queue of a connection that is
\* registered, active, and subscribed to the event's type or to the wildcard,
\* also when an explicit target list is given.
C33_EnqueueOnlyOnMatching ==
    [][\A c \in ConnIds :
          (last'.op = "send" /\ Len(conn'[c].queue) > Len(conn[c].queue))
             => (/\ c \in connections
                 /\ conn[c].active
                 /\ is_subscribed(c, conn'[c].queue[Len(conn'[c].queue)].event))]_vars

\* C34: every id in the pending queue is a key of the task registry and names a
\* task whose status is Pending, so that create_task never fails on a stale
\* queue entry.
C34_QueueHoldsPendingTasks ==
    /\ \A i \in 1..Len(pending_queue) :
          /\ pending_queue[i] \in DOMAIN tasks
          /\ tasks[pending_queue[i]].status = PENDING
    /\ last.ret # "KeyError"

\* The terminal statistics counters, added up.
TerminalCount(st) == st.completed_tasks + st.failed_tasks + st.cancelled_tasks

\* How many terminal events a call fired.
TerminalFired(call) ==
    Cardinality({i \in 1..Len(call.fired) : call.fired[i] \in TerminalEvents})

\* C35: for every task at most one terminal lifecycle event is ever fired and the
\* terminal statistics counters are incremented at most once in total for it,
\* whatever update_task_status and cancel_task calls follow: a terminal event is
\* fired only by the call that sets completed_at, which is never unset, and the
\* counters move by one with that event and at no other time.
C35_OneTerminalEventPerTask ==
    /\ [](TerminalCount(stats) <= Cardinality(DOMAIN tasks))
    /\ [][/\ TerminalCount(stats') = TerminalCount(stats) + TerminalFired(last')
          /\ TerminalFired(last') <= 1
          /\ \A t \in DOMAIN tasks :
                /\ (last'.task = t /\ TerminalFired(last') = 1)
                      => (tasks[t].completed_at = 0 /\ tasks'[t].completed_at # 0)
                /\ tasks[t].completed_at # 0 => tasks'[t].completed_at # 0]_vars

C35_Witness ==
    /\ last.op = "update_task_status"
    /\ last.task = 1
    /\ last.arg = FAILED
    /\ last.ret = "true"
    /\ Fired(last) = {}
    /\ tasks[1].status = FAILED
    /\ stats.cancelled_tasks = 1
    /\ stats.failed_tasks = 0
    /\ stats.completed_tasks = 0

\* C36: no lifecycle event of any type is delivered to the observers for a task
\* after that task's terminal event: within one call nothing is fired after a
\* terminal event, and a call on a task whose terminal event was fired earlier
\* (its completed_at is set) fires nothing.
C36_NothingAfterTerminalEvent ==
    [][\A t \in DOMAIN tasks :
          last'.task = t =>
              /\ \A i \in 1..Len(last'.fired) :
                    last'.fired[i] \in TerminalEvents => i = Len(last'.fired)
              /\ tasks[t].completed_at # 0 => last'.fired = <<>>]_vars

\* C37: once CommandExecutor.cancel_task has returned true for a task, in any
\* interleaving with that task's execute call (also between the registration
\* of the context and the spawn), the result execute returns afterwards is
\* built from a context whose cancelled flag is set.
C37_TrueCancelMarksResult ==
    \A t \in CancelTaskIds :
        []((/\ last.op = "executor.cancel_task"
            /\ last.task = t
            /\ last.ret = "true")
              => [](pc[t] = "returned" => cancelled[t]))

\* get_next_task has just returned the id t.
HandedOut(t) == last.op = "get_next_task" /\ last.ret = "id" /\ last.task = t

\* C38: get_next_task hands out each task id at most once (it returns only ids
\* that were in the pending queue, and an id it has returned is never in the
\* queue again), and it never returns the id of a task on which cancel_task
\* has succeeded, under any interleaving of get_next_task, cancel_task and
\* create_task calls.
C38_HandedOutOnceNeverCancelled ==
    /\ [][\A t \in TaskIds :
             HandedOut(t)' => \E i \in 1..Len(pending_queue) : pending_queue[i] = t]_vars
    /\ \A t \in TaskIds :
          /\ [](HandedOut(t) => [](\A i \in 1..Len(pending_queue) : pending_queue[i] # t))
          /\ []((last.op = "cancel_task" /\ last.task = t /\ last.ret = "true")
                   => [](~HandedOut(t)))

\* get_next_task returns the id of the second task after a cancel_task that
\* succeeded on the first, which was Pending and ahead of it in the queue.
C38_Witness ==
    /\ HandedOut(2)
    /\ 1 \in cancelled_pending
    /\ tasks[1].status = CANCELLED
    /\ pending_queue = <<>>

\* C39: an observer that raises does not abort the operation that fired it:
\* an update_task_status call on a task of the registry applies the status and
\* returns true, and every observer registered for an event the call fires is
\* called, in registration order, those after a raising one included.
C39_RaisingObserverAbortsNothing ==
    [][(last'.op = "update_task_status" /\ last'.task \in DOMAIN tasks)
          => /\ last'.ret = "true"
             /\ tasks'[last'.task].status = last'.arg
             /\ \A n \in 1..Len(last'.fired) :
                   \A i \in 1..Len(observers[last'.fired[n]]) :
                      \E k \in 1..Len(called') :
                         called'[k] = [event |-> last'.fired[n], index |-> i]]_vars

\* A status update to Completed fired task_completed with two observers
\* registered for it, the first of which raises: the second was called after
\* it and the update is in the registry.
C39_Witness ==
    /\ last.op = "update_task_status"
    /\ last.ret = "true"
    /\ last.fired = <<"task_completed">>
    /\ observers["task_completed"] = <<"raises", "returns">>
    /\ called = <<[event |-> "task_completed", index |-> 1],
                  [event |-> "task_completed", index |-> 2]>>
    /\ tasks[last.task].status = COMPLETED
    /\ stats.completed_tasks = 1

\* C40: in every reachable state the counter active_connections equals the
\* number of connections in the registry and every registered connection is
\* active: a close, by the end of the stream, by the sweep, or a second one,
\* unregisters the connection and takes one from the counter exactly once.
C40_CounterMatchesRegistry ==
    /\ active_connections = Cardinality(connections)
    /\ \A c \in connections : conn[c].active

\* The stream of a connection ends after the sweep has closed that connection
\* for being idle: the second close finds nothing and the counter stays at 0.
C40_Witness ==
    /\ last.op = "close_connection"
    /\ last.task = 1
    /\ last_ping[1] = 1
    /\ now = 361
    /\ ~cleanup_due
    /\ 1 \notin connections
    /\ ~conn[1].active
    /\ active_connections = 0

====
